---- MODULE Spec2Model ----
(***************************************************************************)
(* Model of the multi-agent market simulation (backend/market,             *)
(* backend/regulator, backend/agents, backend/simulation/orchestrator).    *)
(*                                                                         *)
(* Number representation.  The program computes in Python floats; the      *)
(* model computes the same expressions in exact fixed point:               *)
(*   - a historical price (df Close) and every amount of money (cash,      *)
(*     portfolio value) is an integer number of mills (0.001 currency      *)
(*     units): 100_000.0 of cash is 100000 * Mill;                         *)
(*   - a simulated price is an integer number of 1/Scale mills, so that    *)
(*     Close * (1 + impact) is exact for every impact that is a multiple   *)
(*     of 1e-5 (the default sensitivity times a whole number of shares);   *)
(*   - quantities and volumes are whole shares.                            *)
(* Float rounding error (1 ulp) is not modelled.                           *)
(***************************************************************************)
EXTENDS Integers, Sequences, FiniteSets, TLC

VARIABLES market, flows, agents, regulator, logger, orch, call

vars == <<market, flows, agents, regulator, logger, orch, call>>

-----------------------------------------------------------------------------
(* Arithmetic helpers *)

\* 1 / DEFAULT_SENSITIVITY: simulated prices are kept in 1/Scale mills
Scale == 100000

\* mills per currency unit
Mill == 1000

Max(a, b) == IF a >= b THEN a ELSE b

Min(a, b) == IF a <= b THEN a ELSE b

Abs(a) == IF a >= 0 THEN a ELSE -a

\* Python int() of a quotient: truncation toward zero
TruncDiv(a, b) == IF a >= 0 THEN a \div b ELSE -((-a) \div b)

\* Python round(): nearest, ties to even; n >= 0, d > 0
RoundDiv(n, d) ==
    LET q == n \div d
        r == n % d
    IN  IF 2 * r < d THEN q
        ELSE IF 2 * r > d THEN q + 1
        ELSE IF q % 2 = 0 THEN q ELSE q + 1

\* [q, r] with x + y = q * c + r and 0 <= r < c, for 0 <= x, y < c, computed
\* without forming x + y
AddMod(x, y, c) ==
    IF x >= c - y THEN [q |-> 1, r |-> x - (c - y)] ELSE [q |-> 0, r |-> x + y]

\* [q, r] with a * b = q * c + r and 0 <= r < c, computed without forming
\* a product that exceeds 32-bit integers; a, b >= 0, c > 0
RECURSIVE MulDivMod(_, _, _)
MulDivMod(a, b, c) ==
    IF a = 0 \/ b = 0 THEN [q |-> 0, r |-> 0]
    ELSE IF b <= 2147483647 \div a THEN [q |-> (a * b) \div c, r |-> (a * b) % c]
    ELSE IF a >= c
    THEN LET h == MulDivMod(a % c, b, c)
         IN  [q |-> (a \div c) * b + h.q, r |-> h.r]
    ELSE IF b > a THEN MulDivMod(b, a, c)
    ELSE LET h   == MulDivMod(a, b \div 2, c)
             dbl == AddMod(h.r, h.r, c)
             add == AddMod(dbl.r, IF b % 2 = 1 THEN a ELSE 0, c)
         IN  [q |-> 2 * h.q + dbl.q + add.q, r |-> add.r]

\* floor(a * b / c)
MulDiv(a, b, c) == MulDivMod(a, b, c).q

\* a * b >= c * d for non-negative operands (c, d may be 0)
GeqProd(a, b, c, d) ==
    IF c = 0 \/ d = 0 THEN TRUE
    ELSE IF a = 0 \/ b = 0 THEN FALSE
    ELSE LET x == MulDivMod(a, b, d)     \* a*b = x.q*d + x.r
         IN  x.q >= c                    \* a*b >= c*d  <=>  x.q >= c  (x.r < d)

\* a * b > c * d for non-negative operands
GtProd(a, b, c, d) == ~GeqProd(c, d, a, b)

\* floor(pct / 100 * x) for x >= 0
PctOf(pct, x) == pct * (x \div 100) + (pct * (x % 100)) \div 100

RECURSIVE SumSeq(_)
SumSeq(s) == IF s = <<>> THEN 0 ELSE Head(s) + SumSeq(Tail(s))

-----------------------------------------------------------------------------
(* MarketEnvironment (backend/market/market.py) *)

\* DEFAULT_SENSITIVITY = 1e-5, in units of 1/Scale per share
DEFAULT_SENSITIVITY == 1

\* the +-20 % cap on the impact, in units of 1/Scale
MaxImpact == 20000

\* the 0.01 floor of the simulated price, in 1/Scale mills
PriceFloor == 10 * Scale

\* a bar of the downloaded frame: Close in mills, Volume in shares.  Open,
\* High and Low are carried by the program but read by no decision.
Bar(c, v) == [Close |-> c, Volume |-> v]

\* the window of the Volatility column
VolatilityWindow == 20

\* the log returns of the rolling window that ends at bar idx are not all
\* equal: their standard deviation is defined and not zero
ReturnsDiffer(df, idx) ==
    \E j, k \in Max(1, idx - VolatilityWindow + 1)..idx :
        df[j + 1].Close * df[k].Close # df[k + 1].Close * df[j].Close

\* the frame with its Volatility column: scale times the rolling standard
\* deviation of the log returns, NaN filled with 0.  The column is held as
\* the multiple of that deviation (0 where the deviation is 0 or undefined).
\* SMA20, SMA50 and the Bollinger bands are rolling functions of Close and
\* are computed from it where they are read.
WithIndicators(df, scale) ==
    [ i \in 1..Len(df) |->
        [ Close      |-> df[i].Close,
          Volume     |-> df[i].Volume,
          Volatility |-> IF ReturnsDiffer(df, i - 1) THEN scale ELSE 0 ] ]

\* float(df.iloc[i]["Close"]) as a simulated-price amount
HistPrice(df, i) == df[i + 1].Close * Scale

\* MarketEnvironment.__init__: step 0, simulated series seeded with Close[0]
NewMarket(df, sens) ==
    [ df                      |-> WithIndicators(df, 1),
      total_bars              |-> Len(df),
      current_step            |-> 0,
      sensitivity_factor      |-> sens,
      current_price           |-> HistPrice(df, 0),
      price_history_simulated |-> << HistPrice(df, 0) >> ]

\* a reset that zeroes the simulated price instead of seeding it with Close[0]
MarketReset_Zeroed(m) ==
    [ m EXCEPT !.current_step = 0,
               !.current_price = 0,
               !.price_history_simulated = << 0 >> ]

\* MarketEnvironment.reset
MarketReset(m) ==
    [ m EXCEPT !.current_step = 0,
               !.current_price = HistPrice(m.df, 0),
               !.price_history_simulated = << HistPrice(m.df, 0) >> ]

\* MarketEnvironment.is_done
IsDone(m) == m.current_step >= m.total_bars - 1

\* impact = max(min(sensitivity_factor * net_volume, 0.20), -0.20)
Impact(sens, net_volume) == Max(Min(sens * net_volume, MaxImpact), -MaxImpact)

\* simulated_price = max(hist_price_next * (1.0 + impact), 0.01)
SimulatedNext(hist_close, impact) == Max(hist_close * (Scale + impact), PriceFloor)

\* a step that moves the simulated price but not the clock
MarketStep_Stalls(m, net_volume) ==
    IF IsDone(m) THEN m
    ELSE LET t == m.current_step + 1
             p == SimulatedNext(m.df[t + 1].Close, Impact(m.sensitivity_factor, net_volume))
         IN  [ m EXCEPT !.current_price = p,
                        !.price_history_simulated = Append(@, p) ]

\* MarketEnvironment.step: the market after the call
MarketStep(m, net_volume) ==
    IF IsDone(m) THEN m
    ELSE LET t == m.current_step + 1
             p == SimulatedNext(m.df[t + 1].Close, Impact(m.sensitivity_factor, net_volume))
         IN  [ m EXCEPT !.current_step = t,
                        !.current_price = p,
                        !.price_history_simulated = Append(@, p) ]

\* the "finished" key of the dict step() returns
StepFinished(m) == IsDone(m)

\* round(x, 4) of a simulated price: in tenths of a mill
Round4(p) == RoundDiv(p, Scale \div 10)

\* _bar_to_dict(idx)["SimulatedPrice"], in tenths of a mill
BarSimulatedPrice(m, idx) ==
    IF idx < Len(m.price_history_simulated)
    THEN Round4(m.price_history_simulated[idx + 1])
    ELSE Round4(HistPrice(m.df, idx))

-----------------------------------------------------------------------------
(* RegulatorAgent (backend/regulator/regulator.py) *)

\* a key that a Python dict does not hold
NoKey == "<absent>"

\* the action dict an agent builds (base_agent.py act): its type is under
\* the key "action"; the key "type" is the one review_trade reads
AgentAction(intent, qty) == [action |-> intent, type |-> NoKey, quantity |-> qty]

\* the action dict of review_trade's docstring: {"type": ..., "quantity": ...}
TypedAction(type, qty) == [action |-> NoKey, type |-> type, quantity |-> qty]

\* action.get("type", "HOLD")
GetType(a) == IF a.type = NoKey THEN "HOLD" ELSE a.type

\* adjusted.get("action") or adjusted.get("type", "HOLD")
GetActionOrType(a) == IF a.action # NoKey THEN a.action ELSE GetType(a)

\* MAX_POSITION_PCT = 0.30, in percent
MAX_POSITION_PCT == 30

\* MAX_ORDER_VOLUME_PCT = 0.10, in percent
MAX_ORDER_VOLUME_PCT == 10

\* the 0.05 of "is_large", in percent
LARGE_ORDER_PCT == 5

BURST_WINDOW == 5

BURST_THRESHOLD == 3

\* "adversarial" in agent_name.lower()
IsAdversarialName(agent_name) == agent_name = "Adversarial"

\* RegulatorAgent.__init__: no recent large order for any agent
NewRegulator(names) == [n \in names |-> << >>]

\* quantity > avg_volume * 0.05
IsLarge(quantity, volume) == 100 * quantity > LARGE_ORDER_PCT * Max(volume, 1)

\* rule 3 pruning with the burst threshold in place of the burst window
PrunedOrders_ThresholdAsWindow(recent, current_step) ==
    SelectSeq(Append(recent, current_step),
              LAMBDA s : current_step - s < BURST_THRESHOLD)

\* _recent_orders[agent_name] after the append and the pruning of rule 3
PrunedOrders(recent, current_step) ==
    SelectSeq(Append(recent, current_step),
              LAMBDA s : current_step - s <= BURST_WINDOW)

\* rule 1 capping to the limit without subtracting the shares already held
PositionRule_IgnoresHeld(quantity, held_qty, close, portfolio_value) ==
    LET position_value == (held_qty + quantity) * close
        limit == PctOf(MAX_POSITION_PCT, portfolio_value)
    IN  IF portfolio_value > 0 /\ position_value > limit
        THEN [fired |-> TRUE,
              quantity |-> IF close > 0 THEN Max(0, TruncDiv(limit, close)) ELSE 0]
        ELSE [fired |-> FALSE, quantity |-> quantity]

\* rule 1: [fired, quantity] for a BUY.  position_value / portfolio_value >
\* 0.30 is decided on whole mills: position_value > floor(0.30 * value)
PositionRule(quantity, held_qty, close, portfolio_value) ==
    LET position_value == (held_qty + quantity) * close
        limit == PctOf(MAX_POSITION_PCT, portfolio_value)
    IN  IF portfolio_value > 0 /\ position_value > limit
        THEN [fired |-> TRUE,
              quantity |-> IF close > 0
                           THEN Max(0, TruncDiv(limit - held_qty * close, close))
                           ELSE 0]
        ELSE [fired |-> FALSE, quantity |-> quantity]

\* rule 2 warning without capping the quantity
OrderSizeRule_NoCap(quantity, adjusted_qty, volume) ==
    [fired |-> 100 * quantity > MAX_ORDER_VOLUME_PCT * Max(volume, 1),
     quantity |-> adjusted_qty]

\* a rule 2 that lets every order through on a bar without volume
OrderSizeRule_SkipsZeroVolume(quantity, adjusted_qty, volume) ==
    IF volume > 0 /\ 100 * quantity > MAX_ORDER_VOLUME_PCT * volume
    THEN [fired |-> TRUE,
          quantity |-> Min(adjusted_qty,
                           Max(1, (MAX_ORDER_VOLUME_PCT * volume) \div 100))]
    ELSE [fired |-> FALSE, quantity |-> adjusted_qty]

\* rule 2: [fired, quantity] given the quantity rule 1 left
OrderSizeRule(quantity, adjusted_qty, volume) ==
    LET avg_volume == Max(volume, 1)
    IN  IF 100 * quantity > MAX_ORDER_VOLUME_PCT * avg_volume
        THEN [fired |-> TRUE,
              quantity |-> Min(adjusted_qty,
                               Max(1, (MAX_ORDER_VOLUME_PCT * avg_volume) \div 100))]
        ELSE [fired |-> FALSE, quantity |-> adjusted_qty]

\* an adversarial flag that sets WARN whatever the decision was
FlagRule_Overrides(agent_name, is_large, decision) ==
    LET fired == IsAdversarialName(agent_name) /\ is_large
    IN  [fired |-> fired, decision |-> IF fired THEN "WARN" ELSE decision]

\* a review without the adversarial-specific flag
FlagRule_Off(agent_name, is_large, decision) ==
    [fired |-> FALSE, decision |-> decision]

\* the adversarial-specific flag: [fired, decision] given the decision the
\* three rules left
FlagRule(agent_name, is_large, decision) ==
    LET fired == IsAdversarialName(agent_name) /\ is_large /\ decision # "BLOCK"
    IN  [fired |-> fired,
         decision |-> IF fired /\ decision = "APPROVE" THEN "WARN" ELSE decision]

\* a review_trade whose early return tests the quantity only
ReviewTrade_ReviewsHold(reg, agent_name, action, agent_state, market_state, current_step) ==
    LET action_type == GetType(action)
        quantity    == action.quantity
    IN
    IF quantity = 0
    THEN [decision |-> "APPROVE", adjusted_action |-> action,
          count_at_step |-> 0, regulator |-> reg]
    ELSE
    LET close  == market_state.Close
        volume == market_state.Volume
        r1 == IF action_type = "BUY"
              THEN PositionRule(quantity, agent_state.positions, close,
                                agent_state.portfolio_value)
              ELSE [fired |-> FALSE, quantity |-> quantity]
        r2 == OrderSizeRule(quantity, r1.quantity, volume)
        is_large == IsLarge(quantity, volume)
        recent == IF is_large THEN PrunedOrders(reg[agent_name], current_step)
                  ELSE reg[agent_name]
        burst == is_large /\ Len(recent) >= BURST_THRESHOLD
        ruled == IF burst THEN "BLOCK"
                 ELSE IF r1.fired \/ r2.fired THEN "WARN"
                 ELSE "APPROVE"
        flagged  == FlagRule(agent_name, is_large, ruled)
        flag     == flagged.fired
        decision == flagged.decision
        adjusted == IF burst
                    THEN [action EXCEPT !.type = "HOLD", !.quantity = 0]
                    ELSE [action EXCEPT !.quantity = r2.quantity]
        count == (IF r1.fired THEN 1 ELSE 0) + (IF r2.fired THEN 1 ELSE 0)
                 + (IF burst THEN 1 ELSE 0) + (IF flag THEN 1 ELSE 0)
    IN  [decision |-> decision, adjusted_action |-> adjusted,
         count_at_step |-> count,
         regulator |-> [reg EXCEPT ![agent_name] = recent]]

\* RegulatorAgent.review_trade: the verdict and the regulator after the call.
\* agent_state is [positions (shares held of the ticker), portfolio_value],
\* market_state is the bar.
ReviewTrade(reg, agent_name, action, agent_state, market_state, current_step) ==
    LET action_type == GetType(action)
        quantity    == action.quantity
    IN
    IF action_type = "HOLD" \/ quantity = 0
    THEN [decision |-> "APPROVE", adjusted_action |-> action,
          count_at_step |-> 0, regulator |-> reg]
    ELSE
    LET close  == market_state.Close
        volume == market_state.Volume
        r1 == IF action_type = "BUY"
              THEN PositionRule(quantity, agent_state.positions, close,
                                agent_state.portfolio_value)
              ELSE [fired |-> FALSE, quantity |-> quantity]
        r2 == OrderSizeRule(quantity, r1.quantity, volume)
        is_large == IsLarge(quantity, volume)
        recent == IF is_large THEN PrunedOrders(reg[agent_name], current_step)
                  ELSE reg[agent_name]
        burst == is_large /\ Len(recent) >= BURST_THRESHOLD
        ruled == IF burst THEN "BLOCK"
                 ELSE IF r1.fired \/ r2.fired THEN "WARN"
                 ELSE "APPROVE"
        flagged  == FlagRule(agent_name, is_large, ruled)
        flag     == flagged.fired
        decision == flagged.decision
        adjusted == IF burst
                    THEN [action EXCEPT !.type = "HOLD", !.quantity = 0]
                    ELSE [action EXCEPT !.quantity = r2.quantity]
        count == (IF r1.fired THEN 1 ELSE 0) + (IF r2.fired THEN 1 ELSE 0)
                 + (IF burst THEN 1 ELSE 0) + (IF flag THEN 1 ELSE 0)
    IN  [decision |-> decision, adjusted_action |-> adjusted,
         count_at_step |-> count,
         regulator |-> [reg EXCEPT ![agent_name] = recent]]

-----------------------------------------------------------------------------
(* TradingAgent and its subclasses (backend/agents) *)

\* the registry, in its iteration order
AGENT_REGISTRY ==
    << "conservative", "momentum", "meanreversion", "noisetrader", "adversarial" >>

AgentKeys == { AGENT_REGISTRY[i] : i \in 1..Len(AGENT_REGISTRY) }

AGENT_DISPLAY_NAMES ==
    [ k \in AgentKeys |->
        CASE k = "conservative"  -> "Conservative"
          [] k = "momentum"      -> "Momentum"
          [] k = "meanreversion" -> "MeanReversion"
          [] k = "noisetrader"   -> "NoiseTrader"
          [] k = "adversarial"   -> "Adversarial" ]

\* initial_cash = 100_000.0, in mills
InitialCash == 100000 * Mill

\* TradingAgent.__init__ and the subclass constructors with default params.
\* positions is the quantity held of the simulation's ticker (0: no entry),
\* avg_cost its average cost in 1/Scale mills (0: no entry), truncated to
\* that unit; in_positions and in_avg_cost tell whether the ticker is a key
\* of the two dicts.  _volume_history is the adversarial agent's buffer.
NewAgent(key, active) ==
    [ name            |-> AGENT_DISPLAY_NAMES[key],
      cash            |-> InitialCash,
      positions       |-> 0,
      avg_cost        |-> 0,
      in_positions    |-> FALSE,
      in_avg_cost     |-> FALSE,
      halted          |-> FALSE,
      active          |-> active,
      _peak_value     |-> InitialCash,
      _volume_history |-> << >> ]

\* POSITION_FRACTION / PUMP_FRACTION defaults, in percent
MomentumPositionPct == 15

MeanReversionPositionPct == 12

NoisePositionPct == 2

PumpPct == 25

\* DUMP_THRESHOLD = 0.03, in percent
DumpThresholdPct == 3

\* VOLUME_LOW_PCTILE = 0.30, in tenths
VolumeLowPctile == 3

\* quantity * price as an amount of mills, rounded down / up; price is in
\* 1/Scale mills
ValueFloor(qty, price) == MulDiv(price, qty, Scale)

ValueCeil(qty, price) ==
    LET x == MulDivMod(price, qty, Scale) IN x.q + (IF x.r > 0 THEN 1 ELSE 0)

\* TradingAgent.get_portfolio_value(current_price, ticker)
GetPortfolioValue(a, price) == a.cash + ValueFloor(a.positions, price)

\* sum over the historical closes of the rolling window ending at bar idx
RollingSum(df, idx, window) ==
    LET first == Max(0, idx - window + 1)
    IN  SumSeq([ i \in 1..(idx - first + 1) |-> df[first + i].Close ])

RollingCount(idx, window) == Min(idx + 1, window)

\* the price an agent reads from the bar, in tenths of a mill:
\* bar["SimulatedPrice"] or bar["simulated_price"] or bar["Close"]
ObservedPrice(m) ==
    LET sp == BarSimulatedPrice(m, m.current_step)
        cp == Round4(m.current_price)
    IN  IF sp # 0 THEN sp
        ELSE IF cp # 0 THEN cp
        ELSE 10 * m.df[m.current_step + 1].Close

\* TradingAgent.perceive on the orchestrator's state: the fields the
\* strategies read.  SMA20, SMA50 and BB_MID are kept as (sum, count) of the
\* rolling window; bb_up and bb_low are None (the bar has no key "BB_Upper"
\* or "bb_up").
Perceive(m) ==
    [ price   |-> ObservedPrice(m),
      sum20   |-> RollingSum(m.df, m.current_step, 20),
      cnt20   |-> RollingCount(m.current_step, 20),
      sum50   |-> RollingSum(m.df, m.current_step, 50),
      cnt50   |-> RollingCount(m.current_step, 50),
      volume  |-> m.df[m.current_step + 1].Volume ]

\* a decision plan: the intent and the size factor as the fraction num / den
Plan(intent, num, den) == [intent |-> intent, num |-> num, den |-> den]

HoldPlan == Plan("HOLD", 0, 1)

\* TradingAgent.reason (the base class, which ConservativeAgent inherits:
\* it overrides decide(), which the orchestrator's tick does not call)
BaseReason == HoldPlan

\* MomentumAgent.reason
MomentumReason(a, obs) ==
    IF obs.sum20 * obs.cnt50 > obs.sum50 * obs.cnt20
    THEN IF a.positions = 0 /\ obs.price > 0
         THEN Plan("BUY", MomentumPositionPct, 100)
         ELSE HoldPlan
    ELSE IF obs.sum20 * obs.cnt50 < obs.sum50 * obs.cnt20 /\ a.positions > 0
         THEN Plan("SELL", 1, 1)
         ELSE HoldPlan

\* MeanReversionAgent.reason.  With bb_up None the bands are rebuilt around
\* bb_mid with half width price - bb_mid: bb_up = price and
\* bb_low = 2 * bb_mid - price, so that price < bb_low is price < bb_mid and
\* price > bb_up never holds; with bb_mid = 0 both bands are 0.
MeanReversionReason(a, obs) ==
    LET mid_zero == obs.sum20 = 0
        below    == IF mid_zero THEN obs.price < 0
                    ELSE obs.price * obs.cnt20 < 10 * obs.sum20
        above    == IF mid_zero THEN obs.price > 0 ELSE FALSE
    IN  IF below /\ obs.price > 0 THEN Plan("BUY", MeanReversionPositionPct, 100)
        ELSE IF above /\ a.positions > 0 THEN Plan("SELL", 1, 1)
        ELSE HoldPlan

\* the outcomes of NoiseTrader's random draws: skip, or a BUY / SELL whose
\* randint draw is the lowest or the highest value of its range
NoiseDraws == { "skip", "buy_lo", "buy_hi", "sell_lo", "sell_hi" }

\* NoiseTrader.reason
NoiseReason(a, obs, draw) ==
    LET affordable == IF obs.price > 0
                      THEN MulDiv(10 * a.cash, NoisePositionPct, 100) \div obs.price
                      ELSE 0
    IN  IF draw = "skip" THEN HoldPlan
        ELSE IF draw \in {"buy_lo", "buy_hi"}
        THEN IF affordable > 0
             THEN LET qty == IF draw = "buy_lo" THEN 1 ELSE Max(1, affordable)
                  IN  IF a.cash > 0 THEN Plan("BUY", qty * obs.price, 10 * a.cash)
                      ELSE Plan("BUY", 0, 1)
             ELSE HoldPlan
        ELSE IF a.positions > 0
             THEN LET sell_qty == IF draw = "sell_lo" THEN 1 ELSE Max(1, a.positions)
                  IN  Plan("SELL", sell_qty, a.positions)
             ELSE HoldPlan

\* the number of entries of the sequence below v / at most v
CountBelow(h, v) == Cardinality({ i \in 1..Len(h) : h[i] < v })

CountAtMost(h, v) == Cardinality({ i \in 1..Len(h) : h[i] <= v })

\* sorted(h)[idx]
SortedAt(h, idx) ==
    CHOOSE v \in { h[i] : i \in 1..Len(h) } :
        CountBelow(h, v) <= idx /\ idx < CountAtMost(h, v)

\* AdversarialAgent._is_low_volume
IsLowVolume(h) ==
    IF Len(h) < 5 THEN FALSE
    ELSE h[Len(h)] <= SortedAt(h, (Len(h) * VolumeLowPctile) \div 10)

\* gain_pct >= DUMP_THRESHOLD for gain_pct = (price - avg) / avg; price in
\* tenths of a mill, avg in 1/Scale mills
GainReached(price, avg) ==
    LET p == price * (Scale \div 10)
    IN  p >= avg /\ GeqProd(p - avg, 100, DumpThresholdPct, avg)

\* a reason that tries the pump phase before the dump phase
AdversarialReason_PumpFirst(a, obs, pump) ==
    IF IsLowVolume(a._volume_history) /\ pump THEN Plan("BUY", PumpPct, 100)
    ELSE IF /\ a.positions > 0 /\ a.avg_cost > 0 /\ obs.price > 0
            /\ GainReached(obs.price, a.avg_cost)
    THEN Plan("SELL", 1, 1)
    ELSE HoldPlan

\* AdversarialAgent.reason; pump is the outcome of random.random() < 0.20
AdversarialReason(a, obs, pump) ==
    IF /\ a.positions > 0 /\ a.avg_cost > 0 /\ obs.price > 0
       /\ GainReached(obs.price, a.avg_cost)
    THEN Plan("SELL", 1, 1)
    ELSE IF IsLowVolume(a._volume_history) /\ pump THEN Plan("BUY", PumpPct, 100)
    ELSE HoldPlan

\* an act that sizes every SELL as held * size_factor, above 1 too
Act_SellUncapped(a, plan, price) ==
    LET intent == IF plan.intent = NoKey THEN "HOLD" ELSE plan.intent
        qty == IF intent = "BUY" /\ price > 0
               THEN MulDiv(10 * a.cash, plan.num, plan.den) \div price
               ELSE IF intent = "SELL"
               THEN Max(MulDiv(a.positions, plan.num, plan.den), 0)
               ELSE 0
    IN  AgentAction(intent, qty)

\* an act that sizes a SELL from the cash, as it sizes a BUY
Act_SellSizedFromCash(a, plan, price) ==
    LET intent == IF plan.intent = NoKey THEN "HOLD" ELSE plan.intent
        qty == IF intent \in {"BUY", "SELL"} /\ price > 0
               THEN MulDiv(10 * a.cash, plan.num, plan.den) \div price
               ELSE 0
    IN  AgentAction(intent, qty)

\* TradingAgent.act: the action dict built from a decision plan; price is
\* the observed price (tenths of a mill).  A plan without the key "intent"
\* is a HOLD.
Act(a, plan, price) ==
    LET intent == IF plan.intent = NoKey THEN "HOLD" ELSE plan.intent
        qty == IF intent = "BUY" /\ price > 0
               THEN MulDiv(10 * a.cash, plan.num, plan.den) \div price
               ELSE IF intent = "SELL"
               THEN IF plan.num < plan.den
                    THEN Max(MulDiv(a.positions, plan.num, plan.den), 0)
                    ELSE a.positions
               ELSE 0
    IN  AgentAction(intent, qty)

\* an execute_action whose SELL keeps the entries of a closed position
ExecuteAction_KeepsClosed(a, action, price) ==
    LET action_type == GetActionOrType(action)
        quantity    == action.quantity
    IN  IF action_type = "BUY" /\ quantity > 0
        THEN IF ValueCeil(quantity, price) <= a.cash
             THEN LET new_qty == a.positions + quantity
                      delta   == price - a.avg_cost
                      shift   == MulDiv(Abs(delta), quantity, new_qty)
                  IN  [ a EXCEPT !.cash = @ - ValueCeil(quantity, price),
                                 !.positions = new_qty,
                                 !.in_positions = TRUE,
                                 !.avg_cost = IF a.positions = 0 THEN price
                                              ELSE IF delta >= 0 THEN @ + shift
                                              ELSE @ - shift,
                                 !.in_avg_cost = @ \/ new_qty > 0 ]
             ELSE a
        ELSE IF action_type = "SELL" /\ quantity > 0
        THEN LET sell_qty == Min(quantity, a.positions)
             IN  IF sell_qty > 0
                 THEN [ a EXCEPT !.cash = @ + ValueFloor(sell_qty, price),
                                 !.positions = @ - sell_qty ]
                 ELSE a
        ELSE a

\* TradingAgent.execute_action(action, current_price); current_price is in
\* 1/Scale mills.  A BUY whose cost exceeds the cash changes nothing; a SELL
\* that closes the position pops the ticker from both dicts.
ExecuteAction(a, action, price) ==
    LET action_type == GetActionOrType(action)
        quantity    == action.quantity
    IN  IF action_type = "BUY" /\ quantity > 0
        THEN IF ValueCeil(quantity, price) <= a.cash         \* cost <= cash
             THEN LET new_qty == a.positions + quantity
                      delta   == price - a.avg_cost
                      shift   == MulDiv(Abs(delta), quantity, new_qty)
                  IN  [ a EXCEPT !.cash = @ - ValueCeil(quantity, price),
                                 !.positions = new_qty,
                                 !.in_positions = TRUE,
                                 !.avg_cost = IF a.positions = 0 THEN price
                                              ELSE IF delta >= 0 THEN @ + shift
                                              ELSE @ - shift,
                                 !.in_avg_cost = @ \/ new_qty > 0 ]
             ELSE a
        ELSE IF action_type = "SELL" /\ quantity > 0
        THEN LET sell_qty == Min(quantity, a.positions)
             IN  IF sell_qty > 0
                 THEN [ a EXCEPT !.cash = @ + ValueFloor(sell_qty, price),
                                 !.positions = @ - sell_qty,
                                 !.in_positions = a.positions # sell_qty,
                                 !.avg_cost = IF a.positions = sell_qty THEN 0 ELSE @,
                                 !.in_avg_cost = @ /\ a.positions # sell_qty ]
                 ELSE a
        ELSE a

\* round(x * 100, 2) of a ratio x = -(num / den) <= 0, in hundredths of a
\* percent (a non-negative number: the size of the drawdown)
DrawdownPct(num, den) ==
    LET x == MulDivMod(num, 10000, den)
    IN  IF x.r < den - x.r THEN x.q
        ELSE IF x.r > den - x.r THEN x.q + 1
        ELSE IF x.q % 2 = 0 THEN x.q ELSE x.q + 1

\* TradingAgent.get_risk_metrics: the agent after the call (_peak_value moves
\* up to the portfolio value) and current_drawdown_pct
PeakUpdated(a, price) ==
    [ a EXCEPT !._peak_value = Max(@, GetPortfolioValue(a, price)) ]

CurrentDrawdown(a, price) ==
    LET pv   == GetPortfolioValue(a, price)
        peak == Max(a._peak_value, pv)
    IN  IF peak > 0 THEN DrawdownPct(peak - pv, peak) ELSE 0

-----------------------------------------------------------------------------
(* SimulationLogger (backend/logging_utils/logger.py) *)

\* None, for a database reference, and the SimulationDB the orchestrator is
\* constructed with
NoDb == "None"

TheDb == "SimulationDB"

NewLogger == [trade_log |-> << >>, regulation_log |-> << >>, _db |-> NoDb]

\* SimulationLogger.set_db
SetDb(lg, db) == [ lg EXCEPT !._db = db ]

\* SimulationLogger.log_trade; price is the historical close in mills and is
\* stored rounded to two decimals (cents)
LogTrade(lg, step, agent_name, action, price, quantity, decision) ==
    [ lg EXCEPT !.trade_log =
        Append(@, [ step |-> step, agent_name |-> agent_name, action |-> action,
                    price |-> RoundDiv(price, 10), quantity |-> quantity,
                    regulator_decision |-> decision ]) ]

\* SimulationLogger.log_regulation_event
LogRegulationEvent(lg, step, agent_name, rule_name, decision) ==
    [ lg EXCEPT !.regulation_log =
        Append(@, [ step |-> step, agent_name |-> agent_name,
                    rule_name |-> rule_name, decision |-> decision ]) ]

-----------------------------------------------------------------------------
(* OrchestratorAgent (backend/simulation/orchestrator.py) *)

\* None, for _crash_triggered_step
NoStep == -1

\* the per-agent and the global circuit-breaker thresholds, 10.0 % and
\* 15.0 %, in hundredths of a percent
AgentHaltDrawdown == 1000

GLOBAL_HALT_DRAWDOWN_PCT == 1500

\* _crash_steps_remaining set by trigger_market_crash
CrashSteps == 10

\* MarketEnvironment before init (self.market is None)
NoMarket ==
    [ df |-> << >>, total_bars |-> 0, current_step |-> 0, sensitivity_factor |-> 0,
      current_price |-> 0, price_history_simulated |-> << >> ]

\* the fields of the orchestrator that init and _reinit_without_download set
ClockAndCrashReset(o, m, total) ==
    [ o EXCEPT !.current_step = 0,
               !.max_steps = m.total_bars,
               !.finished = FALSE,
               !.crash_active = FALSE,
               !._crash_steps_remaining = 0,
               !._crash_vol_multiplier = 1,
               !.circuit_breakers_active = 0,
               !.crash_mode_active = FALSE,
               !._crash_triggered_step = NoStep,
               !.trading_halted = FALSE,
               !._peak_total_value = total ]

\* OrchestratorAgent.__init__
NewOrchestrator ==
    [ inited                  |-> FALSE,
      current_step            |-> 0,
      max_steps               |-> 0,
      finished                |-> FALSE,
      crash_active            |-> FALSE,
      _crash_steps_remaining  |-> 0,
      _crash_vol_multiplier   |-> 1,
      circuit_breakers_active |-> 0,
      crash_mode_active       |-> FALSE,
      _crash_triggered_step   |-> NoStep,
      trading_halted          |-> FALSE,
      _peak_total_value       |-> 0,
      _active_agent_keys      |-> << >>,
      db                      |-> TheDb ]

\* the whole program state before init
NewSimulation ==
    [ market |-> NoMarket, agents |-> << >>, regulator |-> << >>,
      logger |-> NewLogger, orch |-> NewOrchestrator, flows |-> << >> ]

\* the historical close of the current bar: mills, and as a price
CloseNow(m) == m.df[m.current_step + 1].Close

ClosePrice(m) == HistPrice(m.df, m.current_step)

\* sum of get_portfolio_value(price) over the agents whose key is in keys
RECURSIVE TotalValue(_, _, _)
TotalValue(ags, keys, price) ==
    IF keys = {} THEN 0
    ELSE LET k == CHOOSE x \in keys : TRUE
         IN  GetPortfolioValue(ags[k], price) + TotalValue(ags, keys \ {k}, price)

ActiveKeys(ags) == { k \in DOMAIN ags : ags[k].active }

\* get_system_risk: _peak_total_value after the call
SystemPeak(sim) ==
    Max(sim.orch._peak_total_value,
        TotalValue(sim.agents, ActiveKeys(sim.agents), ClosePrice(sim.market)))

\* get_system_risk()["global_drawdown_pct"], as the size of the drawdown
GlobalDrawdown(sim) ==
    LET total == TotalValue(sim.agents, ActiveKeys(sim.agents), ClosePrice(sim.market))
        peak  == SystemPeak(sim)
    IN  IF peak > 0 THEN DrawdownPct(peak - total, peak) ELSE 0

\* get_snapshot on an initialised orchestrator: to_dict of every agent moves
\* its _peak_value, get_system_risk moves _peak_total_value
GetSnapshot(sim) ==
    [ sim EXCEPT
        !.agents = [ k \in DOMAIN sim.agents |->
                       PeakUpdated(sim.agents[k], ClosePrice(sim.market)) ],
        !.orch._peak_total_value = SystemPeak(sim) ]

\* "key in self._active_agent_keys", on the list of keys
IsActiveKey(key, active_keys) == \E i \in 1..Len(active_keys) : active_keys[i] = key

\* the agents init and _reinit_without_download create, one per key of the
\* registry; AgentLoop visits them in the order of the registry
FreshAgents(active_keys) ==
    [ k \in AgentKeys |-> NewAgent(k, IsActiveKey(k, active_keys)) ]

\* the part init and _reinit_without_download share, on a market at step 0
Reinitialised(sim, m, active_keys) ==
    LET ags == FreshAgents(active_keys)
    IN  [ market    |-> m,
          agents    |-> ags,
          regulator |-> NewRegulator({ AGENT_DISPLAY_NAMES[k] : k \in AgentKeys }),
          logger    |-> SetDb(NewLogger, sim.orch.db),
          orch      |-> [ ClockAndCrashReset(sim.orch, m,
                              TotalValue(ags, AgentKeys, HistPrice(m.df, 0)))
                            EXCEPT !.inited = TRUE,
                                   !._active_agent_keys = active_keys ],
          flows     |-> << >> ]

\* OrchestratorAgent.init with the frame the download returns; an empty
\* active_agents list selects every agent
OrchInit(sim, df, active_agents) ==
    LET keys == IF Len(active_agents) = 0 THEN AGENT_REGISTRY ELSE active_agents
    IN  GetSnapshot(Reinitialised(sim, NewMarket(df, DEFAULT_SENSITIVITY), keys))

\* OrchestratorAgent._reinit_without_download
ReinitWithoutDownload(sim) ==
    Reinitialised(sim, MarketReset(sim.market), sim.orch._active_agent_keys)

\* the random outcomes one tick can consume
Draws == [ noise : NoiseDraws, pump : BOOLEAN ]

\* agent.reason(observation) of the agent registered under key
Reason(key, a, obs, draw) ==
    CASE key = "momentum"      -> MomentumReason(a, obs)
      [] key = "meanreversion" -> MeanReversionReason(a, obs)
      [] key = "noisetrader"   -> NoiseReason(a, obs, draw.noise)
      [] key = "adversarial"   -> AdversarialReason(a, obs, draw.pump)
      [] OTHER                 -> BaseReason

\* _is_whale
IsWhale(key) == key = "adversarial"

\* _build_whale_dump: a dict with the keys "action" and "quantity"; it has
\* neither "intent" nor "size_factor", the keys act() reads
BuildWhaleDump(a) ==
    [ intent |-> NoKey, num |-> 0, den |-> 1, action |-> "SELL", quantity |-> a.positions ]

\* the accumulation that counts a SELL as if it were a BUY
NetVolumeOf_Unsigned(decision, adj_type, adj_qty) ==
    IF decision # "BLOCK" /\ adj_qty > 0 /\ adj_type \in {"BUY", "SELL"}
    THEN adj_qty ELSE 0

\* what one reviewed action adds to net_volume
NetVolumeOf(decision, adj_type, adj_qty) ==
    IF decision # "BLOCK" /\ adj_qty > 0
    THEN IF adj_type = "BUY" THEN adj_qty
         ELSE IF adj_type = "SELL" THEN -adj_qty
         ELSE 0
    ELSE 0

\* an agent's turn that logs a compliance event for every review, the
\* approvals too
AgentSettled_LogsEveryReview(acc, key, sim, whale, obs, a1, action, pv, review) ==
    LET step     == sim.orch.current_step
        close    == CloseNow(sim.market)
        adjusted == review.adjusted_action
        adj_type == GetActionOrType(adjusted)
        adj_qty  == adjusted.quantity
        a2       == IF review.decision \in {"APPROVE", "WARN"}
                    THEN ExecuteAction(a1, adjusted, ClosePrice(sim.market))
                    ELSE a1
        lg1      == LogTrade(acc.logger, step, a1.name, adj_type, close, adj_qty,
                             review.decision)
    IN  [ agents     |-> [ acc.agents EXCEPT ![key] = a2 ],
          regulator  |-> review.regulator,
          logger     |-> LogRegulationEvent(lg1, step, a1.name,
                                            "compliance_review", review.decision),
          net_volume |-> acc.net_volume
                           + NetVolumeOf(review.decision, adj_type, adj_qty),
          reviews    |-> Append(acc.reviews,
                           [ key |-> key, proposed |-> action,
                             decision |-> review.decision, adjusted |-> adjusted,
                             adj_type |-> adj_type, adj_qty |-> adj_qty,
                             whale |-> whale,
                             close |-> close, volume |-> obs.volume,
                             price |-> obs.price, portfolio_value |-> pv,
                             cash_before |-> a1.cash, held_before |-> a1.positions,
                             cash_after |-> a2.cash, held_after |-> a2.positions ]) ]

\* steps 4 to 6 of an agent's turn: the approved action is executed, the
\* trade and the regulation event are logged, net_volume is accumulated
AgentSettled(acc, key, sim, whale, obs, a1, action, pv, review) ==
    LET step     == sim.orch.current_step
        close    == CloseNow(sim.market)
        adjusted == review.adjusted_action
        adj_type == GetActionOrType(adjusted)
        adj_qty  == adjusted.quantity
        a2       == IF review.decision \in {"APPROVE", "WARN"}
                    THEN ExecuteAction(a1, adjusted, ClosePrice(sim.market))
                    ELSE a1
        lg1      == LogTrade(acc.logger, step, a1.name, adj_type, close, adj_qty,
                             review.decision)
    IN  [ agents     |-> [ acc.agents EXCEPT ![key] = a2 ],
          regulator  |-> review.regulator,
          logger     |-> IF review.decision \in {"WARN", "BLOCK"}
                         THEN LogRegulationEvent(lg1, step, a1.name,
                                                 "compliance_review", review.decision)
                         ELSE lg1,
          net_volume |-> acc.net_volume
                           + NetVolumeOf(review.decision, adj_type, adj_qty),
          reviews    |-> Append(acc.reviews,
                           [ key |-> key, proposed |-> action,
                             decision |-> review.decision, adjusted |-> adjusted,
                             adj_type |-> adj_type, adj_qty |-> adj_qty,
                             whale |-> whale,
                             close |-> close, volume |-> obs.volume,
                             price |-> obs.price, portfolio_value |-> pv,
                             cash_before |-> a1.cash, held_before |-> a1.positions,
                             cash_after |-> a2.cash, held_after |-> a2.positions ]) ]

\* step 3 of an agent's turn: _build_agent_state and regulator.review_trade
AgentReviewed(acc, key, sim, whale, obs, a1, action, pv) ==
    AgentSettled(acc, key, sim, whale, obs, a1, action, pv,
                 ReviewTrade(acc.regulator, a1.name, action,
                             [positions |-> a1.positions, portfolio_value |-> pv],
                             sim.market.df[sim.market.current_step + 1],
                             sim.orch.current_step))

\* step 2 of an agent's turn: the whale dump of the crash tick, or
\* agent.step (perceive, reason, act) on the observation obs
AgentProposes(acc, key, sim, draw, whale, obs) ==
    LET a  == acc.agents[key]
        a1 == IF key = "adversarial"
              THEN [ a EXCEPT !._volume_history = Append(@, obs.volume) ]
              ELSE a
    IN  AgentReviewed(acc, key, sim, whale, obs, a1,
                      Act(a1, IF whale THEN BuildWhaleDump(a1)
                                       ELSE Reason(key, a1, obs, draw), obs.price),
                      GetPortfolioValue(a1, ClosePrice(sim.market)))

\* one agent's turn in the loop of run_step.  acc carries the agents, the
\* regulator, the logger, net_volume and the reviews made so far in the tick.
AgentTurn(acc, key, sim, draw) ==
    LET a == acc.agents[key]
    IN  IF ~a.active THEN acc
        ELSE IF a.halted
        THEN [ acc EXCEPT !.logger = LogTrade(@, sim.orch.current_step, a.name, "HOLD",
                                              CloseNow(sim.market), 0, "BLOCK") ]
        ELSE AgentProposes(acc, key, sim, draw,
                           /\ sim.orch.crash_mode_active
                           /\ sim.orch._crash_triggered_step = sim.orch.current_step
                           /\ IsWhale(key),
                           Perceive(sim.market))

\* a loop over the agents in the order of the active_agents list of init
RECURSIVE AgentLoop_ActiveOrder(_, _, _, _)
AgentLoop_ActiveOrder(acc, i, sim, draw) ==
    IF i > Len(sim.orch._active_agent_keys) THEN acc
    ELSE AgentLoop_ActiveOrder(AgentTurn(acc, sim.orch._active_agent_keys[i], sim, draw),
                               i + 1, sim, draw)

\* the loop "for agent in self.agents" of run_step, from position i on
RECURSIVE AgentLoop(_, _, _, _)
AgentLoop(acc, i, sim, draw) ==
    IF i > Len(AGENT_REGISTRY) THEN acc
    ELSE AgentLoop(AgentTurn(acc, AGENT_REGISTRY[i], sim, draw), i + 1, sim, draw)

\* breakers that follow the drawdown of the tick instead of latching
CircuitBreakers_Unlatched(ags, price) ==
    [ k \in DOMAIN ags |->
        IF ags[k].active
        THEN [ PeakUpdated(ags[k], price) EXCEPT
                 !.halted = CurrentDrawdown(ags[k], price) >= AgentHaltDrawdown ]
        ELSE ags[k] ]

\* step 7 of run_step: the per-agent circuit breakers
CircuitBreakers(ags, price) ==
    [ k \in DOMAIN ags |->
        IF ags[k].active
        THEN [ PeakUpdated(ags[k], price) EXCEPT
                 !.halted = @ \/ CurrentDrawdown(ags[k], price) >= AgentHaltDrawdown ]
        ELSE ags[k] ]

\* a halted tick that logs a HOLD for every registered agent, active or not
HaltedTick_LogsInactive(sim) ==
    LET m    == sim.market
        step == sim.orch.current_step
        Log[i \in 1..(Len(AGENT_REGISTRY) + 1)] ==
            IF i = 1 THEN sim.logger
            ELSE LogTrade(Log[i - 1], step, sim.agents[AGENT_REGISTRY[i - 1]].name,
                          "HOLD", CloseNow(m), 0, "BLOCK")
        m2   == MarketStep(m, 0)
    IN  GetSnapshot(
          [ sim EXCEPT
              !.logger = Log[Len(AGENT_REGISTRY) + 1],
              !.market = m2,
              !.orch.current_step = m2.current_step,
              !.orch.finished = @ \/ StepFinished(m),
              !.flows = Append(@, [ step |-> step, halted |-> TRUE, net_volume |-> 0,
                                    reviews |-> << >> ]) ])

\* run_step under a global trading halt
HaltedTick(sim) ==
    LET m    == sim.market
        step == sim.orch.current_step
        Log[i \in 1..(Len(AGENT_REGISTRY) + 1)] ==
            IF i = 1 THEN sim.logger
            ELSE LET a == sim.agents[AGENT_REGISTRY[i - 1]]
                 IN  IF a.active
                     THEN LogTrade(Log[i - 1], step, a.name, "HOLD", CloseNow(m), 0, "BLOCK")
                     ELSE Log[i - 1]
        m2   == MarketStep(m, 0)
    IN  GetSnapshot(
          [ sim EXCEPT
              !.logger = Log[Len(AGENT_REGISTRY) + 1],
              !.market = m2,
              !.orch.current_step = m2.current_step,
              !.orch.finished = @ \/ StepFinished(m),
              !.flows = Append(@, [ step |-> step, halted |-> TRUE, net_volume |-> 0,
                                    reviews |-> << >> ]) ])

\* step 8 of run_step and its return: the global circuit breaker, market.step
\* with the tick's net_volume, the clock, and the snapshot
TickClosed(sim, acc, sim1) ==
    LET step == sim.orch.current_step
        halt == GlobalDrawdown(sim1) >= GLOBAL_HALT_DRAWDOWN_PCT
        m2   == MarketStep(sim.market, acc.net_volume)
    IN  GetSnapshot(
          [ sim1 EXCEPT
              !.logger = IF halt
                         THEN LogRegulationEvent(@, step, "SYSTEM",
                                                 "GlobalCircuitBreaker", "BLOCK")
                         ELSE @,
              !.market = m2,
              !.orch.trading_halted = @ \/ halt,
              !.orch._peak_total_value =
                  Max(SystemPeak(sim1),
                      TotalValue(sim1.agents, ActiveKeys(sim1.agents), m2.current_price)),
              !.orch.current_step = m2.current_step,
              !.orch.finished = @ \/ StepFinished(sim.market),
              !.flows = Append(@, [ step |-> step, halted |-> FALSE,
                                    net_volume |-> acc.net_volume,
                                    reviews |-> acc.reviews ]) ])

\* step 7 of run_step, on the result acc of the agent loop
TickBreakers(sim, o1, acc) ==
    LET ags == CircuitBreakers(acc.agents, ClosePrice(sim.market))
    IN  TickClosed(sim, acc,
                   [ sim EXCEPT !.agents = ags, !.regulator = acc.regulator,
                                !.logger = acc.logger,
                                !.orch = [ o1 EXCEPT !.circuit_breakers_active =
                                    Cardinality({ k \in ActiveKeys(ags) : ags[k].halted }) ] ])

\* run_step with trading not halted: the crash countdown, then the agent loop
TradingTick(sim, draw) ==
    LET remain == sim.orch._crash_steps_remaining
        o1     == IF remain > 0
                  THEN [ sim.orch EXCEPT
                           !._crash_steps_remaining = remain - 1,
                           !.crash_active = IF remain = 1 THEN FALSE ELSE @,
                           !._crash_vol_multiplier = IF remain = 1 THEN 1 ELSE @ ]
                  ELSE sim.orch
    IN  TickBreakers(sim, o1,
                     AgentLoop([ agents |-> sim.agents, regulator |-> sim.regulator,
                                 logger |-> sim.logger, net_volume |-> 0,
                                 reviews |-> << >> ],
                               1, [sim EXCEPT !.orch = o1], draw))

\* a run_step that returns the snapshot on the last bar without setting
\* finished
RunStep_NeverFinishes(sim, draw) ==
    IF ~sim.orch.inited THEN sim
    ELSE IF sim.orch.finished \/ IsDone(sim.market)
    THEN GetSnapshot(sim)
    ELSE IF sim.orch.trading_halted THEN HaltedTick(sim)
    ELSE TradingTick(sim, draw)

\* a run_step that relies on the finished flag alone and ticks on the last bar
RunStep_NoEndGuard(sim, draw) ==
    IF ~sim.orch.inited THEN sim
    ELSE IF sim.orch.finished
    THEN GetSnapshot([ sim EXCEPT !.orch.finished = TRUE ])
    ELSE IF sim.orch.trading_halted THEN HaltedTick(sim)
    ELSE TradingTick(sim, draw)

\* a run_step that tests the end of the data before it tests for a missing
\* market
RunStep_GuardsLate(sim, draw) ==
    IF ~sim.orch.inited THEN [ sim EXCEPT !.orch.finished = TRUE ]
    ELSE IF sim.orch.finished \/ IsDone(sim.market)
    THEN GetSnapshot([ sim EXCEPT !.orch.finished = TRUE ])
    ELSE IF sim.orch.trading_halted THEN HaltedTick(sim)
    ELSE TradingTick(sim, draw)

\* OrchestratorAgent.run_step: the program state after the call.  Before
\* init it returns an error dict and changes nothing.
RunStep(sim, draw) ==
    IF ~sim.orch.inited THEN sim
    ELSE IF sim.orch.finished \/ IsDone(sim.market)
    THEN GetSnapshot([ sim EXCEPT !.orch.finished = TRUE ])
    ELSE IF sim.orch.trading_halted THEN HaltedTick(sim)
    ELSE TradingTick(sim, draw)

\* a crash that rescales the whole frame, the bars before step too
CrashedFrame_WholeFrame(df, step, crash_pct) ==
    WithIndicators([ i \in 1..Len(df) |->
                       [ df[i] EXCEPT !.Close = (@ * (100 - crash_pct)) \div 100 ] ],
                   3)

\* the frame after "df.loc[step:, col] * (1 - crash_pct)" and the
\* recomputation of the indicators, Volatility with the factor 3; crash_pct
\* in percent, the scaled close truncated to the mill
CrashedFrame(df, step, crash_pct) ==
    WithIndicators([ i \in 1..Len(df) |->
                       IF i - 1 >= step
                       THEN [ df[i] EXCEPT !.Close = (@ * (100 - crash_pct)) \div 100 ]
                       ELSE df[i] ],
                   3)

\* the whale after the first part of trigger_market_crash: an active whale
\* without a position buys with 90 % of its cash at the simulated price, an
\* inactive whale is re-enabled
WhalePrepared(whale, sim_price) ==
    IF whale.active
    THEN IF whale.positions = 0
         THEN LET buy_qty == IF sim_price > 0
                             THEN MulDiv(whale.cash, (9 * Scale) \div 10, sim_price)
                             ELSE 0
              IN  IF buy_qty > 0
                  THEN ExecuteAction(whale, AgentAction("BUY", buy_qty), sim_price)
                  ELSE whale
         ELSE whale
    ELSE [ whale EXCEPT !.active = TRUE, !.halted = FALSE ]

\* trigger_market_crash up to its final run_step
CrashPrepared(sim, crash_pct) ==
    [ sim EXCEPT
        !.agents["adversarial"] = WhalePrepared(@, sim.market.current_price),
        !.market.df = CrashedFrame(@, sim.market.current_step, crash_pct),
        !.orch.crash_active = TRUE,
        !.orch.crash_mode_active = TRUE,
        !.orch._crash_triggered_step = sim.orch.current_step,
        !.orch._crash_steps_remaining = CrashSteps,
        !.orch._crash_vol_multiplier = 3 ]

\* OrchestratorAgent.trigger_crash / trigger_market_crash
TriggerCrash(sim, crash_pct, draw) ==
    IF ~sim.orch.inited THEN sim
    ELSE RunStep(CrashPrepared(sim, crash_pct), draw)

\* a target taken as given, without the clamping to the bars of the frame
JumpTarget_Unclamped(sim, target_step) == target_step

\* the clamped target of jump_to_step
JumpTarget(sim, target_step) == Max(0, Min(target_step, sim.orch.max_steps - 1))

\* "while self.current_step < target_step and not self.finished"
JumpContinues(sim, target) == sim.orch.current_step < target /\ ~sim.orch.finished

\* the cap of batch_step on n
BatchCap == 200

-----------------------------------------------------------------------------
(* The market alone: MarketEnvironment driven by direct step / reset calls *)

\* values of the variables a specification does not use
Unused == << >>

\* historical frames a data provider can return (Close in mills, Volume in
\* shares); the third bar of the first frame is a sub-cent close (0.005)
MarketDatasets ==
    { << Bar(2000, 1000), Bar(2100, 1000), Bar(5, 1000), Bar(1900, 1000) >>,
      << Bar(1000, 500), Bar(900, 500), Bar(800, 500) >> }

\* sensitivity_factor values passed to the constructor, in units of 1e-5
Sensitivities == { DEFAULT_SENSITIVITY, 10 * DEFAULT_SENSITIVITY }

\* net_volume arguments of step()
NetVolumes == { 0, 1000, -1000, 1500, 30000, -30000 }

InitMarket ==
    /\ \E df \in MarketDatasets, sens \in Sensitivities : market = NewMarket(df, sens)
    /\ flows = << >>
    /\ call = [op |-> "init"]
    /\ agents = Unused /\ regulator = Unused /\ logger = Unused /\ orch = Unused

\* market.step(net_volume)
MktStepCall(net_volume) ==
    /\ market' = MarketStep(market, net_volume)
    /\ flows' = IF IsDone(market) THEN flows
              ELSE Append(flows, [net_volume |-> net_volume])
    /\ call' = [op |-> "step", net_volume |-> net_volume,
                advanced |-> ~IsDone(market), finished |-> StepFinished(market)]
    /\ UNCHANGED <<agents, regulator, logger, orch>>

\* market.reset()
MktResetCall ==
    /\ market' = MarketReset(market)
    /\ flows' = << >>
    /\ call' = [op |-> "reset"]
    /\ UNCHANGED <<agents, regulator, logger, orch>>

NextMarket ==
    \/ \E nv \in NetVolumes : MktStepCall(nv)
    \/ MktResetCall

SpecMarket == InitMarket /\ [][NextMarket]_vars

\* the historical close of the market's current bar, as a simulated-price amount
HistNow == HistPrice(market.df, market.current_step)

\* a step call has just advanced the market by one bar
Advanced == call.op = "step" /\ call.advanced

\* C2: whenever step(net_volume) advances a bar and |sensitivity * net_volume|
\* <= 0.20, the new simulated price is Close_next * (1 + sensitivity *
\* net_volume) and that value is appended to the simulated series.
C2_StepAppliesImpact ==
    (Advanced /\ Abs(market.sensitivity_factor * call.net_volume) <= MaxImpact)
    => /\ market.current_price
            = market.df[market.current_step + 1].Close
                * (Scale + market.sensitivity_factor * call.net_volume)
       /\ market.price_history_simulated[Len(market.price_history_simulated)]
            = market.current_price

\* C3: after every step that advances a bar the realized impact is at most
\* 20 %: |simulated_next - Close_next| <= 0.20 * Close_next.
C3_ImpactAtMost20Pct ==
    Advanced
    => Abs(market.current_price - HistNow)
         <= market.df[market.current_step + 1].Close * MaxImpact

\* C5: if every net order flow so far was 0, the simulated series equals the
\* historical closes element by element up to the current step.
C5_ZeroFlowIsReplay ==
    (\A i \in 1..Len(flows) : flows[i].net_volume = 0)
    => /\ Len(market.price_history_simulated) = market.current_step + 1
       /\ \A i \in 1..Len(market.price_history_simulated) :
             market.price_history_simulated[i] = HistPrice(market.df, i - 1)

-----------------------------------------------------------------------------
(* The regulator alone: review_trade called with the documented arguments *)

MaxCalls == 3

MaxReviewStep == 6

ReviewNames == { "Momentum", "Adversarial" }

\* [cash, held]: cash in mills and shares held, as _build_agent_state reads them
ReviewPortfolios ==
    { [cash |-> 100 * Mill, held |-> 0], [cash |-> 100 * Mill, held |-> 40],
      [cash |-> 0, held |-> 40] }

ReviewQuantities == { 1, 11, 30 }

ReviewVolumes == { 0, 5, 200 }

ReviewInputRec(type, qty, pf, close, volume) ==
    [type |-> type, qty |-> qty, cash |-> pf.cash, held |-> pf.held,
     close |-> close, volume |-> volume]

\* the argument combinations reviewed for an agent that is not adversarial
ReviewInputs ==
    { ReviewInputRec("BUY", q, pf, Mill, v) :
         q \in ReviewQuantities, pf \in ReviewPortfolios, v \in ReviewVolumes }
    \cup { ReviewInputRec("SELL", q, [cash |-> 100 * Mill, held |-> 40], Mill, v) :
         q \in ReviewQuantities, v \in {5, 200} }
    \cup { ReviewInputRec("BUY", 1, [cash |-> 0, held |-> 0], Mill, 200),
           ReviewInputRec("BUY", 11, [cash |-> 0, held |-> 0], Mill, 5),
           ReviewInputRec("BUY", 11, [cash |-> 0, held |-> 40], 0, 0),
           ReviewInputRec("BUY", 11, [cash |-> 100 * Mill, held |-> 40], 0, 200),
           ReviewInputRec("BUY", 0, [cash |-> 100 * Mill, held |-> 0], Mill, 200),
           ReviewInputRec("HOLD", 11, [cash |-> 100 * Mill, held |-> 0], Mill, 200) }

\* the combinations reviewed for the adversarial agent
AdversarialInputs ==
    { i \in ReviewInputs : i.cash = 100 * Mill /\ i.held = 40 /\ i.volume = 200 }

\* the step of the next call: the same tick, or two or three ticks on
ReviewSteps ==
    { s \in {call.current_step, call.current_step + 2, call.current_step + 3} :
         s <= MaxReviewStep }

InitReview ==
    /\ regulator = NewRegulator(ReviewNames)
    /\ call = [op |-> "init", n |-> 0, current_step |-> 0]
    /\ market = Unused /\ flows = Unused /\ agents = Unused
    /\ logger = Unused /\ orch = Unused

\* regulator.review_trade(agent_name, action, agent_state, market_state, step)
\* with agent_state as _build_agent_state builds it (value = cash + holdings)
ReviewCall(name, type, qty, cash, held, close, volume, step) ==
    /\ call.n < MaxCalls
    /\ LET action == TypedAction(type, qty)
           state  == [positions |-> held, portfolio_value |-> cash + held * close]
           bar    == Bar(close, volume)
           v      == ReviewTrade(regulator, name, action, state, bar, step)
       IN  /\ regulator' = v.regulator
           /\ call' = [op |-> "review_trade", n |-> call.n + 1, current_step |-> step,
                       agent_name |-> name, action |-> action, agent_state |-> state,
                       market_state |-> bar, recent_before |-> regulator[name],
                       decision |-> v.decision, adjusted_action |-> v.adjusted_action,
                       count_at_step |-> v.count_at_step]
    /\ UNCHANGED <<market, flows, agents, logger, orch>>

NextReview ==
    \E name \in ReviewNames, step \in ReviewSteps :
       \E i \in (IF name = "Adversarial" THEN AdversarialInputs ELSE ReviewInputs) :
          ReviewCall(name, i.type, i.qty, i.cash, i.held, i.close, i.volume, step)

SpecReview == InitReview /\ [][NextReview]_vars

\* the last call reviewed a BUY or SELL of positive quantity
ReviewedTrade ==
    /\ call.op = "review_trade"
    /\ call.action.type \in {"BUY", "SELL"}
    /\ call.action.quantity > 0

\* the large orders of the agent, the reviewed one included, whose step lies
\* in the trailing 5-step window current_step-4 .. current_step
LargeInWindow ==
    1 + Len(SelectSeq(call.recent_before,
                      LAMBDA s : call.current_step - s < BURST_WINDOW))

\* C8: a large order that is, counting it, at least the third large order of
\* the agent within the trailing 5-step window gets decision BLOCK and the
\* adjusted action HOLD with quantity 0.
C8_BurstBlocks ==
    ( /\ ReviewedTrade
      /\ IsLarge(call.action.quantity, call.market_state.Volume)
      /\ LargeInWindow >= BURST_THRESHOLD )
    => /\ call.decision = "BLOCK"
       /\ call.adjusted_action.type = "HOLD"
       /\ call.adjusted_action.quantity = 0

C8_Witness ==
    /\ ReviewedTrade
    /\ IsLarge(call.action.quantity, call.market_state.Volume)
    /\ LargeInWindow >= BURST_THRESHOLD
    /\ call.action.quantity > (MAX_ORDER_VOLUME_PCT * call.market_state.Volume) \div 100
    /\ call.decision = "BLOCK"

\* the last call reviewed a BUY of positive quantity for a portfolio of
\* positive value
ReviewedBuy ==
    /\ ReviewedTrade
    /\ call.action.type = "BUY"
    /\ call.agent_state.portfolio_value > 0

\* floor(0.30 * portfolio value) of the reviewed agent, in mills
PositionLimit == PctOf(MAX_POSITION_PCT, call.agent_state.portfolio_value)

\* the proposed BUY would have taken the position over the limit
ProposedOverLimit ==
    (call.agent_state.positions + call.action.quantity) * call.market_state.Close
        > PositionLimit

\* the value of the position if the adjusted quantity is bought
AdjustedPositionValue ==
    (call.agent_state.positions + call.adjusted_action.quantity)
        * call.market_state.Close

\* C9 (as claimed): for every BUY of positive quantity with portfolio value
\* > 0, (held + q') * price <= 0.30 * portfolio value, and the decision is WARN
\* or BLOCK whenever the proposed quantity would have exceeded the limit.
C9_Original ==
    ReviewedBuy
    => /\ AdjustedPositionValue <= PositionLimit
       /\ ProposedOverLimit => call.decision \in {"WARN", "BLOCK"}

\* C9 (amended): for every such BUY the adjusted quantity q' satisfies
\* (held + q') * price <= 0.30 * portfolio value when the shares already held
\* are within the limit, and q' = 0 when they already exceed it; the decision
\* is WARN or BLOCK whenever the proposed quantity would have exceeded the limit.
C9_PositionLimit ==
    ReviewedBuy
    => /\ IF call.agent_state.positions * call.market_state.Close <= PositionLimit
          THEN AdjustedPositionValue <= PositionLimit
          ELSE call.adjusted_action.quantity = 0
       /\ ProposedOverLimit => call.decision \in {"WARN", "BLOCK"}

\* a BUY over the limit, from a holding within it, cut to a positive quantity
C9_Witness ==
    /\ ReviewedBuy
    /\ ProposedOverLimit
    /\ call.agent_state.positions > 0
    /\ call.adjusted_action.quantity > 0
    /\ call.adjusted_action.quantity < call.action.quantity
    /\ call.decision = "WARN"

-----------------------------------------------------------------------------
(* The orchestrator driven by its public operations *)

\* the frame a download returns: a fall over five bars, then a recovery, with
\* thin volume on bars 4 and 5
FallingFrame ==
    << Bar(2000, 1000), Bar(1800, 1000), Bar(1640, 1000), Bar(1500, 1000),
       Bar(1360, 800), Bar(1400, 800), Bar(1460, 1000) >>

\* the arguments of init: the frame and the active_agents list
InitInputs ==
    { [df |-> FallingFrame, active |-> << >>],
      [df |-> FallingFrame, active |-> <<"adversarial", "meanreversion">>] }

\* random.uniform(0.15, 0.20): the two ends of the range, in percent
CrashPcts == { 15, 20 }

\* the n of batch_step and the target_step of jump_to_step
BatchSizes == { 0, 2, 250 }

JumpTargets == { -1, 3, 99 }

\* crashes triggered since init plus random trades (of the noise trader and
\* of the adversarial agent) since the last (re)initialisation
MaxShocks == 1

\* the entries of the trade log in which the agent trades
TradesOf(lg, agent_name) ==
    { i \in 1..Len(lg.trade_log) :
        /\ lg.trade_log[i].agent_name = agent_name
        /\ lg.trade_log[i].action \in {"BUY", "SELL"} }

\* the crashes and the random trades of the run so far
Shocks(sim, crashes) ==
    crashes + Cardinality(TradesOf(sim.logger, AGENT_DISPLAY_NAMES["noisetrader"]))
            + Cardinality(TradesOf(sim.logger, AGENT_DISPLAY_NAMES["adversarial"]))

\* the random outcomes the next tick of sim can consume, after the given
\* number of crashes
TickDraws(sim, crashes) ==
    IF ~sim.orch.inited THEN { [noise |-> "skip", pump |-> FALSE] }
    ELSE
    LET noise  == sim.agents["noisetrader"]
        adv    == sim.agents["adversarial"]
        more   == Shocks(sim, crashes) < MaxShocks
        noises == IF noise.active /\ ~noise.halted /\ more
                  THEN IF noise.positions > 0 THEN NoiseDraws
                       ELSE {"skip", "buy_lo", "buy_hi"}
                  ELSE {"skip"}
        pumps  == IF adv.active /\ ~adv.halted /\ Len(adv._volume_history) >= 4 /\ more
                  THEN BOOLEAN ELSE {FALSE}
    IN  { d \in Draws : d.noise \in noises /\ d.pump \in pumps }

\* the program state, as one record
Sim ==
    [ market |-> market, agents |-> agents, regulator |-> regulator,
      logger |-> logger, orch |-> orch, flows |-> flows ]

Becomes(sim) ==
    /\ market' = sim.market /\ agents' = sim.agents /\ regulator' = sim.regulator
    /\ logger' = sim.logger /\ orch' = sim.orch /\ flows' = sim.flows

\* no operation is in progress
Idle == call.pc = "idle"

\* the operation in progress: its position (pc), what its loop still has to
\* do, and the crashes triggered since init; error tells whether the result
\* the last operation returned has the key "error"; saved_db is the local
\* of jump_to_step while its loop runs
Call(pc, remaining, target, crashes) ==
    [ pc |-> pc, remaining |-> remaining, target |-> target, crashes |-> crashes,
      error |-> FALSE, saved_db |-> NoDb ]

\* "if self.market is None: return {"error": ...}", the first statement of
\* run_step, jump_to_step, trigger_market_crash and get_snapshot
ErrorResult(sim) == ~sim.orch.inited

\* the position after an operation on the current orchestrator returned
Returned(c) == [ c EXCEPT !.error = ErrorResult(Sim) ]

Init ==
    /\ market = NoMarket /\ agents = << >> /\ regulator = << >>
    /\ logger = NewLogger /\ orch = NewOrchestrator /\ flows = << >>
    /\ call = Call("idle", 0, 0, 0)

InitCall(input) ==
    /\ Idle
    /\ \E sim \in { OrchInit(Sim, input.df, input.active) } : Becomes(sim)
    /\ call' = Call("idle", 0, 0, 0)

RunStepCall ==
    /\ Idle
    /\ \E sim \in { RunStep(Sim, d) : d \in TickDraws(Sim, call.crashes) } : Becomes(sim)
    /\ call' = Returned(Call("idle", 0, 0, call.crashes))

GetSnapshotCall ==
    /\ Idle
    /\ \E sim \in { IF orch.inited THEN GetSnapshot(Sim) ELSE Sim } : Becomes(sim)
    /\ call' = Returned(Call("idle", 0, 0, call.crashes))

TriggerCrashCall(crash_pct) ==
    /\ Idle
    /\ Shocks(Sim, call.crashes) < MaxShocks
    /\ \E sim \in { TriggerCrash(Sim, crash_pct, d) :
                      d \in TickDraws(IF orch.inited
                                      THEN CrashPrepared(Sim, crash_pct)
                                      ELSE Sim, call.crashes + 1) } : Becomes(sim)
    /\ call' = Returned(Call("idle", 0, 0,
                             IF orch.inited THEN call.crashes + 1 ELSE call.crashes))

\* batch_step(n) up to the end of its first iteration
BatchStepCall(n) ==
    LET count == Min(n, BatchCap) IN
    /\ Idle
    /\ IF count <= 0
       THEN /\ \E sim \in { IF orch.inited THEN GetSnapshot(Sim) ELSE Sim } :
                 Becomes(sim)
            /\ call' = Returned(Call("idle", 0, 0, call.crashes))
       ELSE \E sim \in { RunStep(Sim, d) : d \in TickDraws(Sim, call.crashes) } :
              /\ Becomes(sim)
              /\ call' = IF sim.orch.finished \/ ~orch.inited \/ count = 1
                         THEN Returned(Call("idle", 0, 0, call.crashes))
                         ELSE Returned(Call("batch", count - 1, 0, call.crashes))

\* a further iteration of the loop of batch_step
BatchStepLoop ==
    /\ call.pc = "batch"
    /\ \E sim \in { RunStep(Sim, d) : d \in TickDraws(Sim, call.crashes) } :
         /\ Becomes(sim)
         /\ call' = IF sim.orch.finished \/ call.remaining = 1
                    THEN Returned(Call("idle", 0, 0, call.crashes))
                    ELSE Returned(Call("batch", call.remaining - 1, 0, call.crashes))

\* the program state after one iteration of the loop of jump_to_step, and
\* after the get_snapshot of its return when the loop ends
JumpIteration(sim, target, draw) ==
    LET sim2 == RunStep(sim, draw)
    IN  IF JumpContinues(sim2, target) THEN sim2 ELSE GetSnapshot(sim2)

\* "self.logger._db = None" before the loop of jump_to_step, and
\* "self.logger._db = saved_db" in its finally clause
DbDisabled(sim) == [ sim EXCEPT !.logger = SetDb(@, NoDb) ]

DbRestored(sim, saved_db) == [ sim EXCEPT !.logger = SetDb(@, saved_db) ]

\* jump_to_step(target_step) up to the end of the first iteration of its loop
JumpToStepCall(target_step) ==
    /\ Idle
    /\ IF ~orch.inited
       THEN /\ UNCHANGED <<market, agents, regulator, logger, orch, flows>>
            /\ call' = Returned(Call("idle", 0, 0, call.crashes))
       ELSE \E target \in { JumpTarget(Sim, target_step) } :
            \E sim1 \in { IF target <= orch.current_step
                          THEN ReinitWithoutDownload(Sim) ELSE Sim } :
              IF ~JumpContinues(sim1, target)
              THEN /\ \E sim \in { GetSnapshot(DbRestored(DbDisabled(sim1),
                                                          sim1.logger._db)) } :
                        Becomes(sim)
                   /\ call' = Returned(Call("idle", 0, 0, call.crashes))
              ELSE \E sim \in { JumpIteration(DbDisabled(sim1), target, d) :
                                  d \in TickDraws(sim1, call.crashes) } :
                     IF JumpContinues(sim, target)
                     THEN /\ Becomes(sim)
                          /\ call' = [ Returned(Call("jump", 0, target, call.crashes))
                                         EXCEPT !.saved_db = sim1.logger._db ]
                     ELSE /\ Becomes(DbRestored(sim, sim1.logger._db))
                          /\ call' = Returned(Call("idle", 0, 0, call.crashes))

\* a further iteration of the loop of jump_to_step, and its return
JumpToStepLoop ==
    /\ call.pc = "jump"
    /\ \E sim \in { JumpIteration(Sim, call.target, d) : d \in TickDraws(Sim, call.crashes) } :
         IF JumpContinues(sim, call.target)
         THEN /\ Becomes(sim)
              /\ call' = [ Returned(Call("jump", 0, call.target, call.crashes))
                             EXCEPT !.saved_db = call.saved_db ]
         ELSE /\ Becomes(DbRestored(sim, call.saved_db))
              /\ call' = Returned(Call("idle", 0, 0, call.crashes))

Next ==
    \/ \E input \in InitInputs : InitCall(input)
    \/ RunStepCall
    \/ GetSnapshotCall
    \/ \E crash_pct \in CrashPcts : TriggerCrashCall(crash_pct)
    \/ \E n \in BatchSizes : BatchStepCall(n)
    \/ BatchStepLoop
    \/ \E t \in JumpTargets : JumpToStepCall(t)
    \/ JumpToStepLoop

Spec == Init /\ [][Next]_vars

-----------------------------------------------------------------------------
(* Properties of the verdict of review_trade *)

\* rule 2 fires on the reviewed order: it exceeds 10 % of max(volume, 1)
OverVolume ==
    100 * call.action.quantity
        > MAX_ORDER_VOLUME_PCT * Max(call.market_state.Volume, 1)

\* rule 1 fires on the reviewed order
OverPosition ==
    /\ call.action.type = "BUY"
    /\ call.agent_state.portfolio_value > 0
    /\ ProposedOverLimit

\* rule 3 fires: the order is large and, with it, the agent has three
\* entries no more than BURST_WINDOW steps old
BurstFires ==
    /\ IsLarge(call.action.quantity, call.market_state.Volume)
    /\ 1 + Cardinality({ i \in 1..Len(call.recent_before) :
                           call.current_step - call.recent_before[i] <= BURST_WINDOW })
          >= BURST_THRESHOLD

\* the adversarial flag applies to the reviewed order
FlagApplies ==
    /\ call.agent_name = "Adversarial"
    /\ IsLarge(call.action.quantity, call.market_state.Volume)

\* C11: the decision of review_trade is the most severe outcome among the
\* rules that fired (BLOCK over WARN over APPROVE); a BLOCK carries the
\* adjusted action HOLD with quantity 0 and an APPROVE carries the proposed
\* action unchanged.
C11_MostSevereDecision ==
    call.op = "review_trade" =>
        /\ call.decision \in {"APPROVE", "WARN", "BLOCK"}
        /\ ReviewedTrade =>
              call.decision =
                  IF BurstFires THEN "BLOCK"
                  ELSE IF OverPosition \/ OverVolume \/ FlagApplies THEN "WARN"
                  ELSE "APPROVE"
        /\ ~ReviewedTrade => call.decision = "APPROVE"
        /\ call.decision = "BLOCK" =>
              /\ call.adjusted_action.type = "HOLD"
              /\ call.adjusted_action.quantity = 0
        /\ call.decision = "APPROVE" => call.adjusted_action = call.action

\* the adversarial agent's order on which rule 1, rule 2 and rule 3 all fire
C11_Witness ==
    /\ ReviewedTrade
    /\ OverPosition /\ OverVolume /\ BurstFires /\ FlagApplies
    /\ call.decision = "BLOCK"

-----------------------------------------------------------------------------
(* Properties of the ticks of run_step, stated on the ticks recorded in flows *)

\* the reviews of the n-th tick since the last (re)initialisation
ReviewsOf(n) == flows[n].reviews

\* +quantity for a BUY, -quantity for a SELL, nothing for a BLOCKed action
SignedQuantity(r) ==
    IF r.decision = "BLOCK" THEN 0
    ELSE IF r.adj_type = "BUY" THEN r.adj_qty
    ELSE IF r.adj_type = "SELL" THEN -r.adj_qty
    ELSE 0

\* C1: the net_volume a tick passes to MarketEnvironment.step is the sum,
\* over the agents processed in the tick, of the signed adjusted quantities
\* of the actions that are not BLOCKed; on a globally halted tick it is 0.
C1_NetVolumeIsSignedSum ==
    \A n \in 1..Len(flows) :
        /\ flows[n].net_volume =
             SumSeq([ i \in 1..Len(ReviewsOf(n)) |-> SignedQuantity(ReviewsOf(n)[i]) ])
        /\ flows[n].halted => flows[n].net_volume = 0

\* a tick after which the run has counted both a BUY and a SELL: the SELL
\* makes the net_volume of its tick negative
C1_Witness ==
    \E n, k \in 1..Len(flows) :
        /\ flows[n].net_volume < 0
        /\ \E i \in 1..Len(ReviewsOf(n)) :
               ReviewsOf(n)[i].adj_type = "SELL" /\ ReviewsOf(n)[i].adj_qty > 0
        /\ flows[k].net_volume > 0

ProposedLarge(r) ==
    /\ r.proposed.action \in {"BUY", "SELL"}
    /\ IsLarge(r.proposed.quantity, r.volume)

\* the ticks of the trailing 5-tick window ending at step in which the agent
\* under key proposed a large order
LargeTicks(key, step) ==
    { n \in 1..Len(flows) :
        /\ step - flows[n].step < BURST_WINDOW /\ flows[n].step <= step
        /\ \E i \in 1..Len(ReviewsOf(n)) :
               ReviewsOf(n)[i].key = key /\ ProposedLarge(ReviewsOf(n)[i]) }

\* C6: in run_step, a large order that is the agent's third large order within
\* the trailing 5-tick window is BLOCKed: cash and positions are unchanged,
\* the order adds 0 to the net order flow, and its trade record carries
\* decision BLOCK, action HOLD and quantity 0.
C6_ThirdLargeOrderBlocked ==
    \A n \in 1..Len(flows) : \A i \in 1..Len(ReviewsOf(n)) :
        LET r == ReviewsOf(n)[i] IN
        ( /\ ProposedLarge(r)
          /\ Cardinality(LargeTicks(r.key, flows[n].step)) >= BURST_THRESHOLD )
        => /\ r.decision = "BLOCK"
           /\ r.cash_after = r.cash_before /\ r.held_after = r.held_before
           /\ SignedQuantity(r) = 0
           /\ \A j \in 1..Len(logger.trade_log) :
                  ( /\ logger.trade_log[j].step = flows[n].step
                    /\ logger.trade_log[j].agent_name = AGENT_DISPLAY_NAMES[r.key] )
                  => /\ logger.trade_log[j].regulator_decision = "BLOCK"
                     /\ logger.trade_log[j].action = "HOLD"
                     /\ logger.trade_log[j].quantity = 0

\* C7: after every BUY run_step applies, (held + bought) x the bar's close is
\* at most 30 % of the portfolio value the review was given.
C7_AppliedBuyWithinLimit ==
    \A n \in 1..Len(flows) : \A i \in 1..Len(ReviewsOf(n)) :
        LET r == ReviewsOf(n)[i] IN
        ( r.adj_type = "BUY" /\ r.held_after > r.held_before )
        => GeqProd(MAX_POSITION_PCT, r.portfolio_value, 100 * r.held_after, r.close)

-----------------------------------------------------------------------------
(* Properties of the circuit breakers *)

\* the aggregate value of the active agents at the close of the bar of the
\* first tick since (re)initialisation
FirstTickAggregate ==
    TotalValue(agents, ActiveKeys(agents), HistPrice(market.df, flows[1].step))

\* the aggregate value the active agents have had from initialisation to
\* their first tick: the initial cash of each
InitialAggregate == Cardinality(ActiveKeys(agents)) * InitialCash

\* C12: the global trading halt is set only when the aggregate value of the
\* active agents is at least 15 % below the highest aggregate value they have
\* had since initialisation.  Stated on the first tick after initialisation,
\* where that high-water mark is the aggregate initial cash of the active
\* agents; the drawdown is rounded to 0.01 % as get_system_risk rounds it.
C12_GlobalHaltNeedsDrawdown ==
    (Len(flows) = 1 /\ orch.trading_halted)
        => /\ FirstTickAggregate < InitialAggregate
           /\ DrawdownPct(InitialAggregate - FirstTickAggregate, InitialAggregate)
                >= GLOBAL_HALT_DRAWDOWN_PCT

\* the step is no (re)initialisation: the ticks recorded since the last
\* init or rewinding jump_to_step are kept
RunContinues ==
    /\ orch.inited
    /\ Len(flows') >= Len(flows)
    /\ SubSeq(flows', 1, Len(flows)) = flows

\* C13: halt flags are sticky.  Once an agent's halted flag or the global
\* trading_halted flag is true it is still true after every run_step,
\* batch_step iteration, forward jump_to_step iteration and trigger_crash;
\* only init and a rewinding jump_to_step clear it.
C13_HaltFlagsSticky ==
    [][ RunContinues
          => /\ orch.trading_halted => orch'.trading_halted
             /\ \A k \in AgentKeys : agents[k].halted => agents'[k].halted ]_vars

\* a crash was triggered and a globally halted tick has run after an agent's
\* breaker and the global breaker tripped, and both flags are still set
C13_Witness ==
    /\ orch.trading_halted
    /\ \E k \in DOMAIN agents : agents[k].halted
    /\ call.crashes > 0
    /\ Len(flows) >= 2
    /\ flows[Len(flows)].halted

\* the step runs one tick of the current run
TickRuns == RunContinues /\ Len(flows') = Len(flows) + 1

\* the close of the bar of the tick the step runs, as a price
TickClose == HistPrice(market'.df, flows'[Len(flows')].step)

\* current_drawdown_pct of agent k at the end of the tick the step runs: its
\* portfolio after the tick, valued at the tick's close, against the
\* high-water mark it had when the tick began
TickDrawdown(k) ==
    CurrentDrawdown([ agents'[k] EXCEPT !._peak_value = agents[k]._peak_value ],
                    TickClose)

\* C14: at the end of every tick, globally halted or not, every active agent
\* whose portfolio value is at least 10 % below its own high-water mark has
\* its halted flag set.
C14_BreakerTripsOnDrawdown ==
    [][ TickRuns
          => \A k \in AgentKeys :
               (agents'[k].active /\ TickDrawdown(k) >= AgentHaltDrawdown)
                   => agents'[k].halted ]_vars

-----------------------------------------------------------------------------
(* Properties of the tick run under a global trading halt *)

\* the step is a run_step tick (of run_step, batch_step or jump_to_step, not
\* of trigger_crash) that began with trading globally halted
HaltedRunStep ==
    /\ TickRuns
    /\ orch.trading_halted
    /\ call'.crashes = call.crashes

\* the trade records the step appends
NewTrades ==
    SubSeq(logger'.trade_log, Len(logger.trade_log) + 1, Len(logger'.trade_log))

\* C15: a run_step tick under a global halt changes no agent's cash or
\* positions, leaves the regulator's burst history and the compliance-event
\* log unchanged, logs exactly one HOLD record of quantity 0 per active agent
\* (and nothing else), and advances the market by one bar with net volume 0.
C15_HaltedTickFrame ==
    [][ HaltedRunStep
          => /\ \A k \in AgentKeys :
                  /\ agents'[k].cash = agents[k].cash
                  /\ agents'[k].positions = agents[k].positions
             /\ regulator' = regulator
             /\ logger'.regulation_log = logger.regulation_log
             /\ SubSeq(logger'.trade_log, 1, Len(logger.trade_log)) = logger.trade_log
             /\ Len(NewTrades) = Cardinality(ActiveKeys(agents))
             /\ \A k \in ActiveKeys(agents) :
                  \E i \in 1..Len(NewTrades) : NewTrades[i].agent_name = agents[k].name
             /\ \A i \in 1..Len(NewTrades) :
                  /\ NewTrades[i].action = "HOLD"
                  /\ NewTrades[i].quantity = 0
                  /\ NewTrades[i].step = orch.current_step
             /\ market'.current_step = market.current_step + 1
             /\ orch'.current_step = orch.current_step + 1
             /\ flows'[Len(flows')].net_volume = 0
             /\ market' = MarketStep(market, 0) ]_vars

\* a halted run_step tick has just run over an agent that holds shares
C15_Witness ==
    /\ Len(flows) >= 2
    /\ flows[Len(flows)].halted
    /\ orch._crash_triggered_step # flows[Len(flows)].step
    /\ \E k \in DOMAIN agents : agents[k].active /\ agents[k].positions > 0
    /\ \E k \in DOMAIN agents : ~agents[k].active

-----------------------------------------------------------------------------
(* Properties of trigger_crash *)

\* C16: on the tick trigger_crash runs, the action proposed for an active,
\* unhalted whale (trading not halted) is a SELL of its entire held position,
\* whatever its own strategy would have decided.
C16_WhaleDumpsPosition ==
    \A n \in 1..Len(flows) :
      \A i \in 1..Len(ReviewsOf(n)) :
        LET r == ReviewsOf(n)[i]
        IN  r.whale
              => /\ GetActionOrType(r.proposed) = "SELL"
                 /\ r.proposed.quantity = r.held_before

\* the step appends a trade record of agent k, at the step the operation
\* began at, that accounts for the change of k's position
TradeRecorded(k) ==
    \E i \in 1..Len(NewTrades) :
        /\ NewTrades[i].agent_name = agents[k].name
        /\ NewTrades[i].step = orch.current_step
        /\ \/ /\ NewTrades[i].action = "BUY"
              /\ NewTrades[i].quantity = agents'[k].positions - agents[k].positions
           \/ /\ NewTrades[i].action = "SELL"
              /\ NewTrades[i].quantity = agents[k].positions - agents'[k].positions

\* C17: no operation of a run (run_step, batch_step, jump_to_step,
\* trigger_crash) changes an agent's cash or positions without emitting, in
\* the same operation, the trade record of that change for that agent at that
\* step.
C17_PortfolioChangeIsLogged ==
    [][ RunContinues
          => \A k \in AgentKeys :
               ( \/ agents'[k].cash # agents[k].cash
                 \/ agents'[k].positions # agents[k].positions )
                   => TradeRecorded(k) ]_vars

-----------------------------------------------------------------------------
(* The crash window: a run over a collapsing market, driven by init, *)
(* run_step and trigger_crash                                        *)

\* the frame a download returns: the close collapses from 2.00 to 0.30 over
\* three bars and stays there
CollapsingFrame ==
    << Bar(2000, 1000), Bar(1000, 1000), Bar(500, 1000), Bar(300, 1000),
       Bar(300, 1000), Bar(300, 1000), Bar(300, 1000), Bar(300, 1000),
       Bar(300, 1000), Bar(300, 1000), Bar(300, 1000), Bar(300, 1000) >>

\* init with every agent active
DecayInputs == { [df |-> CollapsingFrame, active |-> << >>] }

NextDecay ==
    \/ \E input \in DecayInputs : InitCall(input)
    \/ RunStepCall
    \/ \E crash_pct \in CrashPcts : TriggerCrashCall(crash_pct)

SpecDecay == Init /\ [][NextDecay]_vars

\* the ticks run from the one of the last trigger_crash on
TicksSinceCrash ==
    Cardinality({ n \in 1..Len(flows) : flows[n].step >= orch._crash_triggered_step })

\* C18: a crash is transient.  Once the ticks run since trigger_crash, the
\* one trigger_crash itself runs included, number 10, crash_active is false
\* again and the volatility multiplier is 1 again.
C18_CrashDecays ==
    (orch._crash_triggered_step # NoStep /\ TicksSinceCrash >= CrashSteps)
        => (~orch.crash_active /\ orch._crash_vol_multiplier = 1)

-----------------------------------------------------------------------------
(* Properties of the historical frame *)

\* the values of bar idx the decisions read apart from Volatility: Close,
\* Volume and what SMA20, SMA50 and the Bollinger bands are computed from
PriceColumns(m, idx) ==
    [ Close  |-> m.df[idx + 1].Close,
      Volume |-> m.df[idx + 1].Volume,
      sum20  |-> RollingSum(m.df, idx, 20),
      sum50  |-> RollingSum(m.df, idx, 50) ]

\* the step is a trigger_crash on an initialised orchestrator
CrashTriggered == call'.crashes > call.crashes

\* the step is a call of init
InitCalled == \E input \in InitInputs : InitCall(input)

-----------------------------------------------------------------------------
(* Properties of the simulation clock *)

\* C20: the clock is monotonic and bounded.  Across run_step, batch_step,
\* trigger_crash and forward jump_to_step, current_step never decreases, it
\* increases by exactly one on every tick, it never exceeds max_steps - 1, and
\* the orchestrator's current_step equals the market's.
C20_ClockMonotonicBounded ==
    [][ /\ orch'.inited
          => /\ orch'.current_step = market'.current_step
             /\ orch'.current_step <= orch'.max_steps - 1
             /\ orch'.max_steps = market'.total_bars
        /\ RunContinues
          => IF Len(flows') > Len(flows)
             THEN orch'.current_step = orch.current_step + 1
             ELSE orch'.current_step = orch.current_step ]_vars

\* the clock stands on the last bar, reached tick by tick through a crash
C20_Witness ==
    /\ orch.inited
    /\ orch.current_step = orch.max_steps - 1
    /\ Len(flows) = orch.max_steps - 1
    /\ flows[Len(flows)].step = orch.max_steps - 2
    /\ call.crashes > 0

-----------------------------------------------------------------------------
(* Properties of the end of the data *)

\* C21: after any tick that brings current_step to the last bar
\* (max_steps - 1) the finished flag is true in the state that tick returns,
\* whether trading is globally halted or not.
C21_LastBarSetsFinished ==
    [][ (TickRuns /\ orch'.current_step = orch'.max_steps - 1)
          => orch'.finished ]_vars

\* the step is a call of run_step, alone or as an iteration of batch_step
RunStepRuns ==
    \/ RunStepCall
    \/ BatchStepLoop
    \/ \E n \in BatchSizes : n > 0 /\ BatchStepCall(n)

\* C22: with the clock on the last bar, MarketEnvironment.step (with any
\* net_volume) and run_step return finished = true and leave the step index,
\* the simulated price and series, every agent's cash and positions and the
\* trade and compliance logs unchanged, however often they are repeated.
C22_LastBarIdempotent ==
    [][ /\ (orch.inited /\ IsDone(market))
          => \A nv \in NetVolumes :
               MarketStep(market, nv) = market /\ StepFinished(market)
        /\ (orch.inited /\ IsDone(market) /\ RunStepRuns)
          => /\ orch'.finished
             /\ orch'.current_step = orch.current_step
             /\ market' = market
             /\ logger' = logger
             /\ \A k \in AgentKeys :
                  /\ agents'[k].cash = agents[k].cash
                  /\ agents'[k].positions = agents[k].positions ]_vars

\* run_step was called on the last bar (only there does it set finished) of
\* a run in which some agent holds shares and trades were logged
C22_Witness ==
    /\ orch.inited
    /\ IsDone(market)
    /\ orch.finished
    /\ Len(logger.trade_log) > 0
    /\ \E k \in DOMAIN agents : agents[k].positions > 0

-----------------------------------------------------------------------------
(* Termination: the orchestrator with a client that, from some point on, *)
(* only invokes run_step                                                 *)

\* the client starts to invoke run_step and nothing else
StartDraining ==
    /\ Idle
    /\ orch.inited
    /\ UNCHANGED <<market, agents, regulator, logger, orch, flows>>
    /\ call' = Call("drain", 0, 0, call.crashes)

\* one of the repeated run_step calls
RunStepDrain ==
    /\ call.pc = "drain"
    /\ \E sim \in { RunStep(Sim, d) : d \in TickDraws(Sim, call.crashes) } : Becomes(sim)
    /\ UNCHANGED call

NextLive ==
    \/ Next
    \/ StartDraining
    \/ RunStepDrain

\* ENABLED <<RunStepDrain>>_vars, <<BatchStepLoop>>_vars and
\* <<JumpToStepLoop>>_vars, written out: the call changes the state
DrainEnabled ==
    /\ call.pc = "drain"
    /\ \E d \in TickDraws(Sim, call.crashes) : RunStep(Sim, d) # Sim

BatchEnabled == call.pc = "batch"

JumpEnabled ==
    /\ call.pc = "jump"
    /\ \E d \in TickDraws(Sim, call.crashes) :
         \E sim \in { JumpIteration(Sim, call.target, d) } :
            sim # Sim \/ ~JumpContinues(sim, call.target)

\* the repeated calls keep coming, and the loops of batch_step and
\* jump_to_step run on: weak fairness of RunStepDrain, BatchStepLoop and
\* JumpToStepLoop, WF_vars(A) taken apart into
\* []<>~ENABLED <<A>>_vars \/ []<><<A>>_vars with the enabling conditions
\* above.  A step that changes the state and starts where call.pc is "drain"
\* ("batch", "jump") is a step of RunStepDrain (BatchStepLoop,
\* JumpToStepLoop), the only action of NextLive possible there.
SpecLive ==
    /\ Init /\ [][NextLive]_vars
    /\ ([]<>~DrainEnabled \/ []<><<call.pc = "drain">>_vars)
    /\ ([]<>~BatchEnabled \/ []<><<call.pc = "batch">>_vars)
    /\ ([]<>~JumpEnabled \/ []<><<call.pc = "jump">>_vars)

\* C23: from any initialised state, run_step invoked again and again
\* eventually yields finished = true, whatever the halts and crashes of the
\* run; batch_step and jump_to_step always terminate.
C23_EventuallyFinished ==
    /\ (call.pc = "drain") ~> orch.finished
    /\ (call.pc \in {"batch", "jump"}) ~> Idle

\* the repeated run_step calls have finished a run that was globally halted
\* after a crash
C23_Witness ==
    /\ call.pc = "drain"
    /\ orch.finished
    /\ orch.trading_halted
    /\ call.crashes > 0

-----------------------------------------------------------------------------
(* Properties of the order in which run_step evaluates the agents *)

\* the position of a key, and of a display name, in the registry
RegistryIndex(key) == CHOOSE i \in 1..Len(AGENT_REGISTRY) : AGENT_REGISTRY[i] = key

NameIndex(name) ==
    CHOOSE i \in 1..Len(AGENT_REGISTRY) : AGENT_DISPLAY_NAMES[AGENT_REGISTRY[i]] = name

\* C24: within every tick the agents are evaluated in the order of the
\* registry (conservative, momentum, meanreversion, noisetrader, adversarial),
\* whatever the order of the active_agents list given to init, and after a
\* rewinding jump_to_step as well: the trade records of one tick, and the
\* compliance reviews of one tick, follow the registry
C24_RegistrationOrder ==
    /\ \A i, j \in 1..Len(logger.trade_log) :
         (i < j /\ logger.trade_log[i].step = logger.trade_log[j].step)
           => NameIndex(logger.trade_log[i].agent_name)
                < NameIndex(logger.trade_log[j].agent_name)
    /\ \A n \in 1..Len(flows) : \A i, j \in 1..Len(ReviewsOf(n)) :
         i < j => RegistryIndex(ReviewsOf(n)[i].key) < RegistryIndex(ReviewsOf(n)[j].key)

\* init was given the list (adversarial, meanreversion), a crash was triggered
\* and a rewinding jump has reset it, and a later tick reviewed both agents
C24_Witness ==
    /\ orch._active_agent_keys = <<"adversarial", "meanreversion">>
    /\ call.crashes > 0
    /\ orch._crash_triggered_step = NoStep
    /\ \E n \in 1..Len(flows) :
         /\ Len(ReviewsOf(n)) = 2
         /\ ReviewsOf(n)[1].key = "meanreversion"
         /\ ReviewsOf(n)[2].key = "adversarial"

-----------------------------------------------------------------------------
(* Properties of the reviewed actions of a tick *)

\* C25: in every tick, no adjusted SELL action that comes out of the
\* compliance review has a quantity greater than the quantity the agent held
\* at review time
C25_SellWithinHolding ==
    \A n \in 1..Len(flows) : \A i \in 1..Len(ReviewsOf(n)) :
        LET r == ReviewsOf(n)[i]
        IN  r.adj_type = "SELL" => r.adj_qty <= r.held_before

\* a tick sold a whole holding: the agent proposed a SELL, the review let it
\* through, and the position is gone
C25_Witness ==
    \E n \in 1..Len(flows) : \E i \in 1..Len(ReviewsOf(n)) :
        LET r == ReviewsOf(n)[i]
        IN  /\ r.adj_type = "SELL" /\ r.adj_qty > 0
            /\ r.adj_qty = r.held_before /\ r.held_after = 0

-----------------------------------------------------------------------------
(* Properties of the portfolios *)

\* C26: after any sequence of ticks and crash triggers, every agent has
\* cash >= 0, every stored position quantity is strictly positive, and the
\* ticker has an average cost entry exactly when it has a position entry
C26_PortfolioInvariant ==
    \A k \in DOMAIN agents :
        /\ agents[k].cash >= 0
        /\ agents[k].in_positions => agents[k].positions > 0
        /\ agents[k].in_avg_cost <=> agents[k].in_positions

\* one agent has bought and closed its position again, another one holds
\* a position
C26_Witness ==
    /\ \E k \in DOMAIN agents :
         ~agents[k].in_positions /\ agents[k].cash # InitialCash
    /\ \E k \in DOMAIN agents :
         agents[k].in_positions /\ agents[k].positions > 0

-----------------------------------------------------------------------------
(* Properties of the execution price *)

\* C27: run_step applies an approved or warned trade at the simulated price
\* the agent observed in that tick: the cash moves by quantity times the
\* observed price (in tenths of a mill), up to the rounding of the observed
\* price to 4 decimals (half a tenth per share) and of the cash to the mill
C27_TradesAtObservedPrice ==
    \A n \in 1..Len(flows) : \A i \in 1..Len(ReviewsOf(n)) :
        LET r == ReviewsOf(n)[i]
        IN  ( /\ r.decision \in {"APPROVE", "WARN"}
              /\ r.cash_after # r.cash_before )
              => Abs(10 * Abs(r.cash_after - r.cash_before) - r.adj_qty * r.price)
                   <= 10 + r.adj_qty

-----------------------------------------------------------------------------
(* Properties of the records a tick emits *)

\* the step is a rewinding jump_to_step that ran one tick after the reset
RewoundTick == orch.inited /\ Len(flows) >= 2 /\ Len(flows') = 1

\* the step ran a tick; LastTick is that tick
TickLogged == TickRuns \/ RewoundTick

LastTick == flows'[Len(flows')]

\* the trade records and the compliance events the tick appended
TickTrades == IF RewoundTick THEN logger'.trade_log ELSE NewTrades

TickEvents ==
    IF RewoundTick THEN logger'.regulation_log
    ELSE SubSeq(logger'.regulation_log, Len(logger.regulation_log) + 1,
                Len(logger'.regulation_log))

\* agent k entered the tick with its circuit breaker tripped
HaltedInTick(k) == ~RewoundTick /\ agents[k].active /\ agents[k].halted

\* the compliance decision on the proposal of agent k was WARN or BLOCK
FlaggedInTick(k) ==
    \E i \in 1..Len(LastTick.reviews) :
        /\ LastTick.reviews[i].key = k
        /\ LastTick.reviews[i].decision \in {"WARN", "BLOCK"}

\* C28: every tick appends exactly one trade record per active agent, stamped
\* with the tick's step (a HOLD of quantity 0 for a halted agent and under a
\* global halt), and a compliance-event record for an agent exactly when the
\* compliance decision on its proposal is WARN or BLOCK
C28_TickRecords ==
    [][ TickLogged
          => /\ Len(TickTrades) = Cardinality(ActiveKeys(agents'))
             /\ \A k \in AgentKeys :
                  Cardinality({ i \in 1..Len(TickTrades) :
                                  TickTrades[i].agent_name = agents'[k].name })
                    = IF agents'[k].active THEN 1 ELSE 0
             /\ \A i \in 1..Len(TickTrades) :
                  /\ TickTrades[i].step = LastTick.step
                  /\ \A k \in AgentKeys :
                       ( /\ TickTrades[i].agent_name = agents'[k].name
                         /\ (LastTick.halted \/ HaltedInTick(k)) )
                         => TickTrades[i].action = "HOLD" /\ TickTrades[i].quantity = 0
             /\ \A k \in AgentKeys :
                  Cardinality({ i \in 1..Len(TickEvents) :
                                  TickEvents[i].agent_name = agents'[k].name })
                    = IF FlaggedInTick(k) THEN 1 ELSE 0 ]_vars

\* a tick that was not globally halted recorded the blocked HOLD of an agent
\* whose breaker had tripped next to the trade of another agent
C28_Witness ==
    \E n \in 1..Len(flows) : \E i, j \in 1..Len(logger.trade_log) :
        /\ ~flows[n].halted
        /\ logger.trade_log[j].step = flows[n].step
        /\ logger.trade_log[j].action = "HOLD"
        /\ logger.trade_log[j].regulator_decision = "BLOCK"
        /\ logger.trade_log[i].step = flows[n].step
        /\ logger.trade_log[i].action \in {"BUY", "SELL"}

-----------------------------------------------------------------------------
(* Properties of the operations on an orchestrator without a market *)

\* C29: run_step, batch_step, jump_to_step, trigger_crash and get_snapshot
\* invoked before a successful init each return an error result and leave
\* every field of the orchestrator (clock, agents, logs, halt and crash
\* flags) unchanged
C29_UninitialisedOps ==
    [][ (~orch.inited /\ ~InitCalled)
          => /\ call'.error
             /\ UNCHANGED <<market, agents, regulator, logger, orch, flows>> ]_vars

\* an operation was invoked before init and returned the error result
C29_Witness ==
    /\ ~orch.inited
    /\ call.error
    /\ market = NoMarket /\ orch = NewOrchestrator /\ logger = NewLogger

-----------------------------------------------------------------------------
(* Properties of review_trade on degenerate inputs *)

\* the reviewed bar has volume 0; the reviewed portfolio is worth 0
ZeroVolume == call.market_state.Volume = 0

ZeroValue == call.agent_state.portfolio_value = 0

\* C30 as stated: review_trade always returns a verdict, and the decision
\* is APPROVE when the bar volume is 0 or the portfolio value is 0
C30_Original ==
    call.op = "review_trade" =>
        /\ call.decision \in {"APPROVE", "WARN", "BLOCK"}
        /\ (ZeroVolume \/ ZeroValue) => call.decision = "APPROVE"

\* C30: review_trade always returns a verdict, also for bar volume 0,
\* portfolio value 0 and price 0, and approves a HOLD and a quantity of 0.
\* For a BUY or SELL of positive quantity a bar volume of 0 counts as a
\* volume of 1, so the decision is WARN or BLOCK; a portfolio value of 0
\* switches off the position-size rule only, so the decision is APPROVE
\* exactly when neither the order-size rule, the burst rule nor the
\* adversarial flag fires
C30_DegenerateInputs ==
    call.op = "review_trade" =>
        /\ call.decision \in {"APPROVE", "WARN", "BLOCK"}
        /\ ~ReviewedTrade => call.decision = "APPROVE"
        /\ (ReviewedTrade /\ ZeroVolume) => call.decision \in {"WARN", "BLOCK"}
        /\ (ReviewedTrade /\ ZeroValue)
             => ( call.decision = "APPROVE"
                    <=> ~(OverVolume \/ BurstFires \/ FlagApplies) )

\* a BUY was reviewed on a bar with volume 0 and close 0 for a portfolio
\* worth 0, and it was not approved
C30_Witness ==
    /\ ReviewedTrade
    /\ ZeroVolume /\ ZeroValue /\ call.market_state.Close = 0
    /\ call.decision = "WARN"

-----------------------------------------------------------------------------
(* Properties of review_trade on orders that are not trades *)

\* C31: review_trade returns APPROVE for every HOLD action and every action
\* of quantity 0, with the adjusted action equal to the proposed action and
\* the agent's burst (large-order) history unchanged
C31_HoldApprovedUntouched ==
    ( /\ call.op = "review_trade"
      /\ (call.action.type = "HOLD" \/ call.action.quantity = 0) )
    => /\ call.decision = "APPROVE"
       /\ call.adjusted_action = call.action
       /\ regulator[call.agent_name] = call.recent_before

\* a HOLD whose quantity would be a large order was reviewed for an agent
\* that has large orders on record
C31_Witness ==
    /\ call.op = "review_trade"
    /\ call.action.type = "HOLD"
    /\ IsLarge(call.action.quantity, call.market_state.Volume)
    /\ Len(call.recent_before) >= 2
    /\ call.decision = "APPROVE"

-----------------------------------------------------------------------------
(* Properties of the adversarial flag *)

\* C32: every large order (quantity > 5 % of the bar's volume) of the
\* adversarial agent gets WARN or BLOCK, never APPROVE; for the other agents
\* the flag changes nothing: their decision is the one rules 1 to 3 give
C32_AdversarialNeverApproved ==
    ( ReviewedTrade /\ IsLarge(call.action.quantity, call.market_state.Volume) )
    => /\ call.agent_name = "Adversarial" => call.decision \in {"WARN", "BLOCK"}
       /\ call.agent_name # "Adversarial"
            => call.decision =
                 IF BurstFires THEN "BLOCK"
                 ELSE IF OverPosition \/ OverVolume THEN "WARN"
                 ELSE "APPROVE"

\* the adversarial agent's large SELL on which no rule fired got WARN
C32_Witness ==
    /\ ReviewedTrade
    /\ FlagApplies
    /\ ~OverPosition /\ ~OverVolume /\ ~BurstFires
    /\ call.decision = "WARN"

-----------------------------------------------------------------------------
(* The agents alone: act and the adversarial agent's step on given inputs *)

\* the agents and plans act is applied to: cash in mills (0, 0.007, 100),
\* shares held, the observed price in tenths of a mill (0, 0.0003, 1.818),
\* and a plan: every intent with the size factors 0, 0.02, 0.5, 1 and 1.5,
\* or a plan without the keys "intent" and "size_factor"
ActInputs ==
    [ cash  : { 0, 7, 100 * Mill },
      held  : { 0, 1, 40 },
      price : { 0, 3, 18180 },
      plan  : { Plan(i, n, 100) : i \in {"BUY", "SELL", "HOLD"},
                                  n \in {0, 2, 50, 100, 150} }
              \cup { Plan(NoKey, 0, 1) } ]

\* the states the adversarial agent steps in: nothing held, or 100 shares
\* at an average cost of 10.00 (avg in mills); the volumes seen before the
\* current bar and the current bar's volume; observed prices around the 3 %
\* gain on 10.00 (tenths of a mill) and the price 0; the random draw
WhaleInputs ==
    [ holding : { [held |-> 0, avg |-> 0], [held |-> 100, avg |-> 10000] },
      history : { << >>, <<1000, 1000, 1000, 1000>> },
      volume  : { 800, 1200 },
      price   : { 0, 102900, 103000, 103100 },
      pump    : BOOLEAN ]

\* an agent with the given cash and position
AgentHolding(key, cash, held, avg, history) ==
    [ NewAgent(key, TRUE) EXCEPT !.cash = cash, !.positions = held,
                                 !.in_positions = held > 0,
                                 !.avg_cost = avg * Scale, !.in_avg_cost = held > 0,
                                 !._volume_history = history ]

InitAgent ==
    /\ call = [op |-> "init"]
    /\ market = Unused /\ flows = Unused /\ agents = Unused
    /\ logger = Unused /\ orch = Unused /\ regulator = Unused

\* agent.act(decision_plan) after the agent observed price
ActCall(cash, held, plan, price) ==
    /\ call' = [ op |-> "act", cash |-> cash, held |-> held, plan |-> plan,
                 price |-> price,
                 action |-> Act(AgentHolding("momentum", cash, held, 0, << >>),
                                plan, price) ]
    /\ UNCHANGED <<market, flows, agents, logger, orch, regulator>>

\* AdversarialAgent.step(state): perceive appends the bar's volume to the
\* volume history, reason chooses the plan, act builds the action
AdversarialStepCall(holding, history, volume, price, pump) ==
    LET a   == AgentHolding("adversarial", 100 * Mill, holding.held, holding.avg, history)
        a1  == [ a EXCEPT !._volume_history = Append(@, volume) ]
        obs == [ price |-> price, volume |-> volume ]
    IN  /\ call' = [ op |-> "step", held |-> holding.held, avg |-> holding.avg,
                     history |-> a1._volume_history, price |-> price, pump |-> pump,
                     action |-> Act(a1, AdversarialReason(a1, obs, pump), price) ]
        /\ UNCHANGED <<market, flows, agents, logger, orch, regulator>>

\* the bars and holdings the conservative agent steps on: nothing held or
\* 100 shares at 10.00 (avg in mills); prices 9.50, 9.80 and 11.00 (tenths of
\* a mill); SMA50 = 10.00 with SMA20 = 10.20 or 9.90, as (sum, count) in
\* mills; Volatility 0.01 or 0.05, in thousandths
ConservativeInputs ==
    [ holding    : { [held |-> 0, avg |-> 0], [held |-> 100, avg |-> 10000] },
      price      : { 95000, 98000, 110000 },
      sum20      : { 20 * 10200, 20 * 9900 },
      volatility : { 10, 50 } ]

\* ConservativeAgent.step(state) as run_step calls it: the inherited
\* perceive, reason and act (the class overrides decide only)
ConservativeStepCall(holding, price, sum20, volatility) ==
    LET a   == AgentHolding("conservative", InitialCash, holding.held, holding.avg, << >>)
        obs == [ price |-> price, sum20 |-> sum20, cnt20 |-> 20,
                 sum50 |-> 50 * 10000, cnt50 |-> 50, volume |-> 1000,
                 volatility |-> volatility ]
    IN  /\ call' = [ op |-> "conservative", cash |-> a.cash, held |-> holding.held,
                     avg |-> holding.avg, obs |-> obs,
                     action |-> Act(a, Reason("conservative", a, obs,
                                              [noise |-> "skip", pump |-> FALSE]),
                                    price) ]
        /\ UNCHANGED <<market, flows, agents, logger, orch, regulator>>

\* the arguments of one agent's turn in the loop of run_step: the holding,
\* the plan reason() returns (position_size_pct 0.15 and 1.0), the bar's
\* historical close in mills and the simulated price the agent observes
TurnInputs ==
    [ held : {0, 100}, intent : {"BUY", "SELL"}, pct : {15, 100},
      close : {1800}, price : {17800, 18000, 18200} ]

\* steps 2 to 6 of the turn of the Momentum agent on a one-bar market whose
\* simulated price is price: act, review_trade, execute_action at the
\* close, the log records and the accumulation of net_volume
TurnCall(held, intent, pct, close, price) ==
    LET a   == AgentHolding("momentum", InitialCash, held, 18, << >>)
        m   == NewMarket(<< Bar(close, 1000) >>, DEFAULT_SENSITIVITY)
        sim == [ NewSimulation EXCEPT !.market = m ]
        obs == [ price |-> price, sum20 |-> close, cnt20 |-> 1, sum50 |-> close,
                 cnt50 |-> 1, volume |-> 1000 ]
        acc == AgentReviewed([ agents |-> [ k \in {"momentum"} |-> a ],
                               regulator |-> NewRegulator({a.name}),
                               logger |-> NewLogger, net_volume |-> 0,
                               reviews |-> << >> ],
                             "momentum", sim, FALSE, obs, a,
                             Act(a, Plan(intent, pct, 100), price),
                             GetPortfolioValue(a, ClosePrice(m)))
    IN  /\ call' = [ op |-> "turn", net_volume |-> acc.net_volume,
                     review |-> acc.reviews[1], trade |-> acc.logger.trade_log[1] ]
        /\ UNCHANGED <<market, flows, agents, logger, orch, regulator>>

NextAgent ==
    \/ \E i \in ActInputs : ActCall(i.cash, i.held, i.plan, i.price)
    \/ \E i \in ConservativeInputs :
          ConservativeStepCall(i.holding, i.price, i.sum20, i.volatility)
    \/ \E i \in TurnInputs : TurnCall(i.held, i.intent, i.pct, i.close, i.price)
    \/ \E i \in WhaleInputs :
          AdversarialStepCall(i.holding, i.history, i.volume, i.price, i.pump)

SpecAgent == InitAgent /\ [][NextAgent]_vars

\* C33: act derives the quantity from the plan's size factor num / den:
\* floor(cash * factor / price) for a BUY, floor(held * factor) for a SELL
\* and all held shares when the factor is at least 1; with price 0, cash 0 or
\* no held shares the quantity is 0
C33_ActQuantity ==
    call.op = "act" =>
        LET q      == call.action.quantity
            num    == call.plan.num
            den    == call.plan.den
            intent == call.action.action
        IN  /\ intent = (IF call.plan.intent = NoKey THEN "HOLD" ELSE call.plan.intent)
            /\ q >= 0
            /\ (intent = "BUY" /\ call.price > 0)
                 => /\ q * call.price * den <= 10 * call.cash * num
                    /\ 10 * call.cash * num < (q + 1) * call.price * den
            /\ (intent = "BUY" /\ (call.price = 0 \/ call.cash = 0)) => q = 0
            /\ (intent = "SELL" /\ num >= den) => q = call.held
            /\ (intent = "SELL" /\ num < den)
                 => q * den <= call.held * num /\ call.held * num < (q + 1) * den
            /\ (intent = "SELL" /\ call.held = 0) => q = 0
            /\ intent = "HOLD" => q = 0

\* act sized a SELL of a holding of 40 with a size factor of 1.5
C33_Witness ==
    /\ call.op = "act"
    /\ call.action.action = "SELL"
    /\ call.held = 40 /\ call.plan.num > call.plan.den
    /\ call.action.quantity = 40

-----------------------------------------------------------------------------
(* Properties of the adversarial agent's dump *)

\* the position has a positive average cost and the observed price is at
\* least 3 % above it (both in tenths of a mill)
DumpDue ==
    /\ call.held > 0 /\ call.avg > 0 /\ call.price > 0
    /\ (call.price - 10 * call.avg) * 100 >= DumpThresholdPct * 10 * call.avg

\* C34: whenever the Adversarial agent holds a position with positive
\* average cost and the observed price gives an unrealized gain of at least
\* the dump threshold (100 shares at cost 10.00, price 10.31, threshold 3 %),
\* its next decision is a SELL of its entire position, whatever the volume
\* history and the random draw
C34_DumpAtThreshold ==
    (call.op = "step" /\ DumpDue)
    => /\ call.action.action = "SELL"
       /\ call.action.quantity = call.held

\* 100 shares at 10.00 and a price of 10.31, on a low-volume bar with the
\* random draw that would start a pump: the agent sells the 100 shares
C34_Witness ==
    /\ call.op = "step"
    /\ call.held = 100 /\ call.avg = 10000 /\ call.price = 103100
    /\ IsLowVolume(call.history) /\ call.pump
    /\ call.action = AgentAction("SELL", 100)

-----------------------------------------------------------------------------
(* Properties of the conservative agent *)

\* stop_loss_pct = 0.03 and risk_pct = 0.07 in percent, volatility_threshold
\* = 0.02 in thousandths
ConservativeStopLossPct == 3

ConservativeRiskPct == 7

ConservativeVolatilityThreshold == 20

\* the action the documented decision logic gives on the reviewed bar:
\* prices in tenths of a mill, avg and the sums in mills
ConservativeRule ==
    LET price == call.obs.price
    IN  IF /\ call.held > 0 /\ call.avg > 0
           /\ price * 100 < 10 * call.avg * (100 - ConservativeStopLossPct)
        THEN AgentAction("SELL", call.held)
        ELSE IF call.obs.volatility > ConservativeVolatilityThreshold
        THEN AgentAction("HOLD", 0)
        ELSE IF /\ price * call.obs.cnt50 < 10 * call.obs.sum50
                /\ call.obs.sum20 * call.obs.cnt50 > call.obs.sum50 * call.obs.cnt20
                /\ call.held = 0
        THEN AgentAction("BUY", MulDiv(10 * call.cash, ConservativeRiskPct, 100) \div price)
        ELSE AgentAction("HOLD", 0)

\* C35: driven by the orchestrator's tick, the Conservative agent proposes a
\* SELL of its whole position if the price is below average cost times
\* (1 - stop_loss_pct), otherwise HOLD if volatility exceeds its threshold,
\* otherwise a BUY of floor(cash * risk_pct / price) shares if price < SMA50
\* and SMA20 > SMA50 and it holds nothing, otherwise HOLD
C35_ConservativeRule ==
    call.op = "conservative" => call.action = ConservativeRule


-----------------------------------------------------------------------------
(* Properties of jump_to_step *)

\* the step is a jump_to_step that rewound to bar 0 and replayed nothing
RewoundToStart ==
    /\ Idle /\ orch.inited /\ call'.pc = "idle"
    /\ Len(flows) > 0 /\ flows' = << >>
    /\ ~InitCalled

\* the step is a jump_to_step that rewound, replayed the first tick and goes
\* on replaying
RewindStarts ==
    Idle /\ orch.inited /\ call'.pc = "jump" /\ call'.target <= orch.current_step

\* the step ends the loop of a jump_to_step
JumpReturns == call.pc = "jump" /\ call'.pc = "idle"

\* clock, simulated prices, agents, burst history, logs, halt and crash flags
\* after the step are those of a simulation that has not run a tick
InitialValuesAfter ==
    /\ orch'.current_step = 0 /\ market'.current_step = 0 /\ ~orch'.finished
    /\ market'.price_history_simulated = << HistPrice(market'.df, 0) >>
    /\ market'.current_price = HistPrice(market'.df, 0)
    /\ \A k \in DOMAIN agents' :
         /\ agents'[k].cash = InitialCash /\ agents'[k].positions = 0
         /\ agents'[k].avg_cost = 0 /\ ~agents'[k].halted
         /\ agents'[k]._peak_value = InitialCash
         /\ agents'[k]._volume_history = << >>
         /\ agents'[k].active = agents[k].active
    /\ \A n \in DOMAIN regulator' : regulator'[n] = << >>
    /\ logger'.trade_log = << >> /\ logger'.regulation_log = << >>
    /\ ~orch'.trading_halted /\ orch'.circuit_breakers_active = 0
    /\ ~orch'.crash_active /\ ~orch'.crash_mode_active
    /\ orch'._crash_steps_remaining = 0
    /\ orch'._crash_triggered_step = NoStep

\* the state after the step is that of one tick run on bar 0 from the initial
\* values
ReplayedFromStart ==
    /\ orch'.current_step = 1 /\ market'.current_step = 1
    /\ Len(flows') = 1 /\ flows'[1].step = 0
    /\ Len(market'.price_history_simulated) = 2
    /\ market'.price_history_simulated[1] = HistPrice(market'.df, 0)
    /\ \A i \in 1..Len(flows'[1].reviews) :
         /\ flows'[1].reviews[i].cash_before = InitialCash
         /\ flows'[1].reviews[i].held_before = 0
    /\ \A i \in 1..Len(logger'.trade_log) : logger'.trade_log[i].step = 0
    /\ \A i \in 1..Len(logger'.regulation_log) : logger'.regulation_log[i].step = 0
    /\ \A n \in DOMAIN regulator' :
         \A i \in 1..Len(regulator'[n]) : regulator'[n][i] = 0
    /\ ~orch'.crash_active /\ ~orch'.crash_mode_active
    /\ orch'._crash_steps_remaining = 0

\* C36: jump_to_step(t) returns with current_step = min(max(t, 0),
\* max_steps - 1); when the target is not ahead of the current step it first
\* resets clock, simulated prices, agents, burst history, logs, halt and crash
\* flags to their initial values and replays from bar 0; the logger's
\* database reference after the call is the one it had before the replay.
C36_JumpToStep ==
    [][ /\ RewoundToStart => ( InitialValuesAfter /\ logger'._db = logger._db )
        /\ ( Idle /\ orch.inited /\ call'.pc = "jump" )
              => /\ \E t \in JumpTargets :
                      call'.target = Min(Max(t, 0), orch.max_steps - 1)
                 /\ call'.saved_db = logger._db /\ logger'._db = NoDb
        /\ RewindStarts => ReplayedFromStart
        /\ JumpReturns => ( /\ orch'.current_step = call.target
                            /\ logger'._db = call.saved_db
                            /\ logger'._db = orch.db ) ]_vars

\* the loop of a jump_to_step is replaying after a rewind: the frame carries
\* a crash triggered at a later bar than the one the replay has reached, and
\* the database reference is put aside
C36_Witness ==
    /\ call.pc = "jump" /\ orch.current_step = 1 /\ call.target = 3
    /\ logger._db = NoDb /\ call.saved_db = TheDb
    /\ market.df[2].Close = FallingFrame[2].Close
    /\ \E i \in 3..Len(market.df) : market.df[i].Close # FallingFrame[i].Close


-----------------------------------------------------------------------------
(* The window of the burst rule *)

\* C37: review_trade issues a burst BLOCK at step t only when the agent has
\* placed at least 3 large orders, the current one and blocked attempts
\* included, within the 5 consecutive steps ending at t (t-4 .. t); a large
\* order older than that never contributes to a BLOCK.
C37_BurstWindow ==
    ( call.op = "review_trade" /\ call.decision = "BLOCK" )
    => /\ IsLarge(call.action.quantity, call.market_state.Volume)
       /\ LargeInWindow >= BURST_THRESHOLD


-----------------------------------------------------------------------------
(* The net order flow against the portfolios *)

\* C38: every BUY or SELL counted in a tick's net order flow was applied in
\* full to the agent's portfolio: what an agent's turn adds to the net_volume
\* passed to the market equals the change in the shares the agent holds (no
\* BUY rejected for insufficient cash is counted).
C38_NetFlowApplied ==
    call.op = "turn"
    => call.net_volume = call.review.held_after - call.review.held_before


-----------------------------------------------------------------------------
(* The portfolios of halted agents *)

\* C39: from the tick after an agent is halted by its circuit breaker, and
\* for every agent while trading is globally halted, no run_step, batch_step,
\* forward jump_to_step or trigger_crash changes that agent's cash or
\* positions.
C39_HaltedPortfolioFrozen ==
    [][ RunContinues
          => \A k \in AgentKeys :
               ( orch.trading_halted \/ (agents[k].active /\ agents[k].halted) )
               => /\ agents'[k].cash = agents[k].cash
                  /\ agents'[k].positions = agents[k].positions ]_vars


-----------------------------------------------------------------------------
(* Simulation (backend/simulation/simulation.py), the object the HTTP layer
   drives: init_simulation and step_simulation *)

\* ConservativeAgent.decide on the state the agent was shown: the bar's
\* SimulatedPrice, its SMA20 and SMA50 (rolling sums and counts) and whether
\* its Volatility is above the threshold
ConservativeDecide(a, m, vol_high) ==
    LET close == BarSimulatedPrice(m, m.current_step)
        obs   == Perceive(m)
    IN  IF /\ a.positions > 0 /\ a.avg_cost > 0
           /\ close * 100 * Scale < 10 * a.avg_cost * (100 - ConservativeStopLossPct)
        THEN AgentAction("SELL", a.positions)
        ELSE IF vol_high THEN AgentAction("HOLD", 0)
        ELSE IF /\ close * obs.cnt50 < 10 * obs.sum50
                /\ obs.sum20 * obs.cnt50 > obs.sum50 * obs.cnt20
                /\ a.positions = 0 /\ close > 0
                /\ MulDiv(10 * a.cash, ConservativeRiskPct, 100) \div close > 0
        THEN AgentAction("BUY", MulDiv(10 * a.cash, ConservativeRiskPct, 100) \div close)
        ELSE AgentAction("HOLD", 0)

\* the random outcomes one call of step_simulation can consume: the draws of
\* the agents and whether the bar's volatility is above the Conservative
\* agent's threshold
SimDraws == [ noise : NoiseDraws, pump : BOOLEAN, vol_high : BOOLEAN ]

\* the records of the trade log with a positive quantity of the two agents
\* that trade at random
RandomOrders(lg) ==
    { i \in 1..Len(lg.trade_log) :
        /\ lg.trade_log[i].quantity > 0
        /\ lg.trade_log[i].agent_name \in { AGENT_DISPLAY_NAMES["noisetrader"],
                                            AGENT_DISPLAY_NAMES["adversarial"] } }

StepDraws(sim) ==
    IF ~sim.orch.inited THEN { [noise |-> "skip", pump |-> FALSE, vol_high |-> FALSE] }
    ELSE
    LET noise  == sim.agents["noisetrader"]
        adv    == sim.agents["adversarial"]
        more   == Cardinality(RandomOrders(sim.logger)) < MaxShocks
        noises == IF noise.active /\ ~noise.halted /\ more
                  THEN IF noise.positions > 0 THEN NoiseDraws
                       ELSE {"skip", "buy_lo", "buy_hi"}
                  ELSE {"skip"}
        pumps  == IF adv.active /\ ~adv.halted /\ Len(adv._volume_history) >= 4 /\ more
                  THEN BOOLEAN ELSE {FALSE}
        vols   == IF sim.market.df[sim.market.current_step + 1].Volatility = 0
                  THEN {FALSE} ELSE BOOLEAN
    IN  { d \in SimDraws : d.noise \in noises /\ d.pump \in pumps /\ d.vol_high \in vols }

\* steps 4 to 7 of an agent's turn in step_simulation: execute_action at the
\* close, the trade record (its action read under "type") and the
\* compliance event
SimAgentSettled(acc, key, sim, a1, review) ==
    [ agents    |-> [ acc.agents EXCEPT ![key] =
                        IF review.decision \in {"APPROVE", "WARN"}
                        THEN ExecuteAction(a1, review.adjusted_action,
                                           ClosePrice(sim.market))
                        ELSE a1 ],
      regulator |-> review.regulator,
      logger    |-> IF review.decision \in {"WARN", "BLOCK"}
                    THEN LogRegulationEvent(
                           LogTrade(acc.logger, sim.orch.current_step, a1.name,
                                    GetType(review.adjusted_action), CloseNow(sim.market),
                                    review.adjusted_action.quantity, review.decision),
                           sim.orch.current_step, a1.name,
                           "compliance_review", review.decision)
                    ELSE LogTrade(acc.logger, sim.orch.current_step, a1.name,
                                  GetType(review.adjusted_action), CloseNow(sim.market),
                                  review.adjusted_action.quantity, review.decision) ]

\* step 3 of the turn: the agent_state dict and regulator.review_trade
SimAgentReviewed(acc, key, sim, a1, action) ==
    SimAgentSettled(acc, key, sim, a1,
                    ReviewTrade(acc.regulator, a1.name, action,
                                [ positions |-> a1.positions,
                                  portfolio_value |->
                                      GetPortfolioValue(a1, ClosePrice(sim.market)) ],
                                sim.market.df[sim.market.current_step + 1],
                                sim.orch.current_step))

\* steps 1 and 2 of the turn: observe_market_state and decide, which is
\* step (perceive, reason, act) for every agent but the Conservative one
SimAgentDecides(acc, key, sim, draw, obs, a1) ==
    SimAgentReviewed(acc, key, sim, a1,
                     IF key = "conservative"
                     THEN ConservativeDecide(a1, sim.market, draw.vol_high)
                     ELSE Act(a1, Reason(key, a1, obs, draw), obs.price))

\* one agent's turn in the loop of step_simulation
SimAgentTurn(acc, key, sim, draw) ==
    IF ~acc.agents[key].active THEN acc
    ELSE IF acc.agents[key].halted
    THEN [ acc EXCEPT !.logger = LogTrade(@, sim.orch.current_step, acc.agents[key].name,
                                          "HOLD", CloseNow(sim.market), 0, "BLOCK") ]
    ELSE SimAgentDecides(acc, key, sim, draw, Perceive(sim.market),
                         IF key = "adversarial"
                         THEN [ acc.agents[key] EXCEPT
                                  !._volume_history =
                                      Append(@, Perceive(sim.market).volume) ]
                         ELSE acc.agents[key])

\* the loop "for agent in self.agents" of step_simulation, from position i on
RECURSIVE SimAgentLoop(_, _, _, _)
SimAgentLoop(acc, i, sim, draw) ==
    IF i > Len(AGENT_REGISTRY) THEN acc
    ELSE SimAgentLoop(SimAgentTurn(acc, AGENT_REGISTRY[i], sim, draw), i + 1, sim, draw)

\* "new_state, _, info = self.market.step({})": step() advances current_step
\* and then multiplies sensitivity_factor by its argument, the dict, which
\* raises TypeError; on the last bar it returns before the multiplication
MarketStepWithDict(m) ==
    IF IsDone(m) THEN [ market |-> m, raised |-> FALSE ]
    ELSE [ market |-> [ m EXCEPT !.current_step = @ + 1 ], raised |-> TRUE ]

\* the end of step_simulation: the circuit breakers (ags), then market.step
\* (ms), the clock and the snapshot when step returns
SimTickClosed(sim, o1, acc, ags, ms) ==
    IF ms.raised
    THEN [ sim |-> [ sim EXCEPT
                       !.agents = ags, !.regulator = acc.regulator,
                       !.logger = acc.logger, !.market = ms.market,
                       !.orch = [ o1 EXCEPT !.circuit_breakers_active =
                                    Cardinality({ k \in ActiveKeys(ags) : ags[k].halted }) ] ],
           raised |-> TRUE ]
    ELSE [ sim |-> GetSnapshot(
                     [ sim EXCEPT
                         !.agents = ags, !.regulator = acc.regulator,
                         !.logger = acc.logger, !.market = ms.market,
                         !.orch = [ o1 EXCEPT
                                      !.circuit_breakers_active =
                                        Cardinality({ k \in ActiveKeys(ags) : ags[k].halted }),
                                      !.current_step = ms.market.current_step,
                                      !.finished = TRUE ] ]),
           raised |-> FALSE ]

\* the agent loop of step_simulation done (acc), its circuit breakers
SimTickBreakers(sim, o1, acc) ==
    SimTickClosed(sim, o1, acc, CircuitBreakers(acc.agents, ClosePrice(sim.market)),
                  MarketStepWithDict(sim.market))

\* step_simulation past its guards: the crash countdown, then the agent loop
SimTick(sim, draw) ==
    SimTickBreakers(sim,
                    IF sim.orch._crash_steps_remaining > 0
                    THEN [ sim.orch EXCEPT
                             !._crash_steps_remaining = @ - 1,
                             !.crash_active =
                                 IF sim.orch._crash_steps_remaining = 1 THEN FALSE ELSE @,
                             !._crash_vol_multiplier =
                                 IF sim.orch._crash_steps_remaining = 1 THEN 1 ELSE @ ]
                    ELSE sim.orch,
                    SimAgentLoop([ agents |-> sim.agents, regulator |-> sim.regulator,
                                   logger |-> sim.logger ], 1, sim, draw))

\* Simulation.step_simulation: the program state when the call ends, and
\* whether it ended by raising
StepSimulation(sim, draw) ==
    IF ~sim.orch.inited THEN [ sim |-> sim, raised |-> FALSE ]
    ELSE IF sim.orch.finished \/ IsDone(sim.market)
    THEN [ sim |-> GetSnapshot([ sim EXCEPT !.orch.finished = TRUE ]), raised |-> FALSE ]
    ELSE SimTick(sim, draw)

\* Simulation.init_simulation: init of the orchestrator without a database
SimInitCall(input) ==
    /\ \E sim \in { OrchInit(Sim, input.df, input.active) } :
         Becomes([ sim EXCEPT !.logger = SetDb(@, NoDb) ])
    /\ call' = [ op |-> "init_simulation", error |-> FALSE, raised |-> FALSE ]

\* POST /api/step with n <= 1: step_simulation; an exception becomes the
\* response {"error": ...} with status 500
StepSimulationCall ==
    /\ \E r \in { StepSimulation(Sim, d) : d \in StepDraws(Sim) } :
         /\ Becomes(r.sim)
         /\ call' = [ op |-> "step_simulation", error |-> r.raised \/ ~orch.inited,
                      raised |-> r.raised ]

InitSimulation ==
    /\ market = NoMarket /\ agents = << >>
    /\ regulator = << >> /\ logger = NewLogger
    /\ orch = NewOrchestrator /\ flows = << >>
    /\ call = [ op |-> "new", error |-> FALSE, raised |-> FALSE ]

\* the arguments of init_simulation: the frames and active_agents lists of
\* init, and the twelve-bar collapse with every agent active
SimulationInputs == InitInputs \cup DecayInputs

NextSimulation ==
    \/ \E input \in SimulationInputs : SimInitCall(input)
    \/ StepSimulationCall

SpecSimulation == InitSimulation /\ [][NextSimulation]_vars

\* the step is a step_simulation on an initialised, unfinished simulation
StepSimulationRuns ==
    /\ call'.op = "step_simulation"
    /\ orch.inited /\ ~orch.finished /\ ~IsDone(market)

\* the tick completed in full: every active agent has a new trade record,
\* market and simulation clock moved on by one bar, one simulated price was
\* appended, and the snapshot was returned
TickCompleted ==
    /\ ~call'.error
    /\ Len(logger'.trade_log)
         = Len(logger.trade_log) + Cardinality(ActiveKeys(agents))
    /\ market'.current_step = market.current_step + 1
    /\ orch'.current_step = orch.current_step + 1
    /\ Len(market'.price_history_simulated) = Len(market.price_history_simulated) + 1

\* C40: step_simulation on an initialised, unfinished simulation either
\* completes the tick in full or fails before any agent, market or log state
\* has been changed.
C40_TickAllOrNothing ==
    [][ StepSimulationRuns
          => \/ TickCompleted
             \/ /\ call'.error
                /\ UNCHANGED <<market, agents, regulator, logger>> ]_vars

====
